---- MODULE Spec2Model ----
(***************************************************************************)
(* NightWatch orchestration engine: the in-memory message bus              *)
(* (orchestration/message_bus.py), the state manager                       *)
(* (orchestration/state_manager.py), the seven-phase pipeline               *)
(* (orchestration/pipeline.py), an agent under its timeout (agents/base.py) *)
(* and the legacy run (runner.py).                                          *)
(*                                                                         *)
(* Python objects are mutable and shared by reference, so messages live in *)
(* a heap: an AgentMessage object is a record whose payload field is a     *)
(* reference into a second heap of payload objects.  copy.deepcopy         *)
(* allocates a new message object and a new payload object.                *)
(***************************************************************************)
EXTENDS Integers, Sequences, FiniteSets, TLC

VARIABLES
    subscribers,    \* MessageBus._subscribers, in dict insertion order
    messages,       \* MessageBus._messages: session_id -> list of message refs
    heap,           \* [objs: AgentMessage objects, pays: payload objects]
    stack,          \* active publish() calls, innermost first
    nextSub,        \* number of subscription ids handed out so far
    pubLog,         \* history: one entry per publish() call, in call order
    delivered,      \* history: one entry per handler invocation, in call order
    propagated,     \* TRUE once an exception has left publish()
    config,         \* Pipeline.config (PipelineConfig)
    state_manager,  \* Pipeline.state_manager: [states: session_id -> snapshot,
                    \*   snaps: PipelineState objects, cells: their lists and dicts]
    pc,             \* where Pipeline.execute stands
    runs,           \* number of execute() calls so far
    run_kwargs,     \* Pipeline._run_kwargs: the keys of the caller's kwargs
    exec_session,   \* execute's session_id
    phase_idx,      \* index of phase_def in self._phases
    phase_results,  \* execute's phase_results
    result,         \* the PhaseResult _execute_phase is returning
    loop,           \* _run_agent_phase's locals
    outcome,        \* what execute returned or raised
    fallback,       \* history: the calls of the legacy run(), with their kwargs
    trace,          \* history: the state-manager calls and phase runs of this execute
    item_failed,    \* history: the error items whose analysis failed
    failures,       \* history: the phases in which something failed, and how
    now,            \* the clock: what datetime.now(UTC) returns
    held,           \* history: the snapshots callers of the state manager were
                    \*   handed, each with what its holder read from it then
    last_call,      \* history: the latest call of a state-manager operation
    status,         \* BaseAgent._status
    agent_pc,       \* where the agent's execute_with_timeout stands
    operation,      \* the operation execute_with_timeout runs
    expired,        \* TRUE once timeout_seconds have passed since the operation began
    calls,          \* history: the LLM and tool calls of the operation
    agent_out,      \* what execute_with_timeout returned or raised
    agent_runs,     \* number of execute_with_timeout calls so far
    run_pc,         \* where the invocation stands: in run() or in the pipeline
    run_entry,      \* how the invocation was made: directly, or through a Pipeline
    dry_run,        \* run's dry_run after the overrides
    settings,       \* get_settings()
    analyses,       \* run's analyses (the pipeline's state.analyses_data)
    report,         \* run's report
    wip,            \* run's open_count and slots
    candidates,     \* run's candidates
    cand_idx,       \* number of candidates Step 9 has gone through
    issues_created, \* run's issues_created
    best_fix,       \* run's best_fix
    run_result,     \* run's result in Step 10
    pr_validation_failures, \* run's pr_validation_failures
    effects,        \* history: the writes to the chat, the tracker and the disk
    run_log,        \* history: the log lines and helper calls of Steps 4 to 13
    an_pc,          \* where analyze_error stands
    an_settings,    \* the settings analyze_error reads
    an_error,       \* error.error_class of the error under analysis
    an_pass,        \* _single_pass's locals: iteration, max_iterations,
                    \*   total_tokens, api_calls
    an_out,         \* the ErrorAnalysisResult the pass in progress returned
    pass1_result,   \* analyze_error's pass1_result
    an_result,      \* the ErrorAnalysisResult analyze_error returned
    an_hist,        \* history: LLM rounds, stop reasons and each pass's own result
    ks_docs,        \* the files of <knowledge_dir>/errors: name -> content
    ks_index,       \* the file <knowledge_dir>/index.yml
    ks_pending,     \* the write_text call in progress: the file is open and empty
    ks_today,       \* datetime.now(UTC), the day
    ks_clock,       \* datetime.now(UTC), the instant: one tick per document
    ks_hist,        \* history: the last write to a document; the document a
                    \*   compound_result and rebuild_index pair has just written
    ks_search,      \* history: what search_prior_knowledge returned, if it was
                    \*   called since the store last changed
    ks_seen,        \* history: what another process read, if it did since the
                    \*   store last changed
    wf_name,        \* Workflow.name of the workflow whose act() ran last
    wf_kwargs,      \* what that act() was called with
    wf_actions,     \* the WorkflowActions that act() returned
    wf_log,         \* history: the action types that act() attempted, those
                    \*   it passed to check_safe_output, and the warnings logged
    bt_pc,          \* where submit_batch stands
    bt_call,        \* submit_batch's batch.id and custom_id_map
    bt_files,       \* the files of BATCH_STATE_DIR, the oldest first
    bt_next,        \* number of batches the API has created
    bt_seen,        \* history: what the last later invocation got from the files
    rt_pc,          \* where _call_claude_with_retry stands
    rt_attempt,     \* its loop variable attempt
    rt_last_error,  \* its local last_error
    rt_delay,       \* the seconds of the time.sleep it is in or was last in
    rt_raised,      \* the exception that left the call
    rt_hist,        \* history: the messages.create calls made, the failures
                    \*   retried, the longest wait
    pl_pc,          \* where poll_results stands
    pl_args,        \* its poll_interval and max_wait, in seconds
    pl_elapsed,     \* its local elapsed
    pl_api,         \* the batch at the API: its processing_status, its results
    pl_out,         \* what poll_results returned or raised
    pl_hist,        \* history: the status polls made, and whether one of them
                    \*   saw "ended"
    pd_call,        \* the analyses and min_cluster_size detect_patterns was
                    \*   called with last
    pd_patterns,    \* the recurring_error patterns of that call
    cv_pc,          \* where a _single_pass stands with its conversation
    cv_iteration,   \* its locals iteration and max_iterations
    cv_messages,    \* its local messages, the conversation
    cv_hist         \* history: the conversation after the last tool-use step
                    \*   appended to it, before any compression

busVars == <<subscribers, messages, heap, stack, nextSub, pubLog, delivered,
             propagated>>

pipeVars == <<config, state_manager, pc, runs, run_kwargs, exec_session, phase_idx,
              phase_results, result, loop, outcome, fallback, trace, item_failed,
              failures>>

\* The pipeline's variables but its state manager.
pipeRest == <<config, pc, runs, run_kwargs, exec_session, phase_idx, phase_results,
              result, loop, outcome, fallback, trace, item_failed, failures>>

smVars == <<now, held, last_call>>

agentVars == <<status, agent_pc, operation, expired, calls, agent_out, agent_runs>>

runVars == <<run_pc, run_entry, dry_run, settings, analyses, report, wip, candidates,
             cand_idx, issues_created, best_fix, run_result, pr_validation_failures,
             effects, run_log>>

anVars == <<an_pc, an_settings, an_error, an_pass, an_out, pass1_result, an_result,
            an_hist>>

ksVars == <<ks_docs, ks_index, ks_pending, ks_today, ks_clock, ks_hist, ks_search,
            ks_seen>>

\* The variables of the analysis loop, the knowledge store, the workflows and
\* the batch client.
wfVars == <<wf_name, wf_kwargs, wf_actions, wf_log>>

btVars == <<bt_pc, bt_call, bt_files, bt_next, bt_seen>>

rtVars == <<rt_pc, rt_attempt, rt_last_error, rt_delay, rt_raised, rt_hist>>

\* The variables of one LLM call, of one conversation, of one poll and of the
\* pattern detector.
plVars == <<pl_pc, pl_args, pl_elapsed, pl_api, pl_out, pl_hist>>

pdVars == <<pd_call, pd_patterns>>

cvVars == <<cv_pc, cv_iteration, cv_messages, cv_hist>>

lateVars == <<rtVars, plVars, pdVars, cvVars>>

extVars == <<anVars, ksVars, wfVars, btVars, lateVars>>

nonBusVars == <<pipeVars, smVars, agentVars, runVars, extVars>>
nonPipeVars == <<smVars, agentVars, runVars, extVars>>
nonSmVars == <<busVars, pipeRest, agentVars, runVars, extVars>>
nonAgentVars == <<busVars, pipeVars, smVars, runVars, extVars>>
nonRunVars == <<busVars, pipeVars, smVars, agentVars, extVars>>
coreVars == <<busVars, pipeVars, smVars, agentVars, runVars>>
nonAnVars == <<coreVars, ksVars, wfVars, btVars, lateVars>>
nonKsVars == <<coreVars, anVars, wfVars, btVars, lateVars>>
nonWfVars == <<coreVars, anVars, ksVars, btVars, lateVars>>
nonBtVars == <<coreVars, anVars, ksVars, wfVars, lateVars>>
earlyVars == <<coreVars, anVars, ksVars, wfVars, btVars>>
nonRtVars == <<earlyVars, plVars, pdVars, cvVars>>
nonPlVars == <<earlyVars, rtVars, pdVars, cvVars>>
nonPdVars == <<earlyVars, rtVars, plVars, cvVars>>
nonCvVars == <<earlyVars, rtVars, plVars, pdVars>>

vars == <<coreVars, extVars>>

Nil == "nil"

----------------------------------------------------------------------------
(* Bounds of the bus model: subscriptions made, publish calls made by callers *)

MaxSubs == 2
MaxPublish == 1

(* Bounds of the pipeline model *)

MaxRuns == 1
MaxErrors == 2
MaxSnaps == 4
MaxClock == 2
MaxAgentRuns == 2
MaxIterations == 2

(* Bounds of the run model: the max_issues a run is given, and the           *)
(* nightwatch_max_open_issues it is configured with                           *)
MaxIssues == 2
MaxOpenIssues == 2

----------------------------------------------------------------------------
(* types/agents.py, types/messages.py *)

AgentType == {"analyzer", "researcher", "pattern_detector", "reporter", "validator"}

MessageType == {"task_assigned", "task_started", "task_completed", "task_failed",
                "errors_ready", "traces_ready", "analysis_ready", "patterns_ready",
                "validation_complete", "phase_complete", "iteration_needed"}

\* MessagePriority.MEDIUM, the default priority of create_message
MEDIUM == 1

\* The sessions, message types and recipients the bus is exercised with: messages
\* are addressed to nobody or to Target; a subscription is an analyzer's for every
\* type or a reporter's for the Trigger type.
BusSessions == {"s1", "s2"}
Trigger == "errors_ready"
Reply == "phase_complete"
BusTypes == {Trigger, Reply}
Target == "analyzer"
SubKinds == {<<"analyzer", Nil>>, <<"reporter", Trigger>>}

\* What a subscribed handler does with the message it is handed.  Handlers are
\* caller-supplied callables; these are the behaviours the bus has to withstand.
\* A "publish" handler answers a Trigger message with a Reply message; an
\* "unsubscribe" handler calls unsubscribe with a subscription id it holds.
Handlers == {"record", "mutate", "raise", "publish", "unsubscribe"}

\* The value a mutating handler writes into the payload it received.
Mutated == "modified"

\* create_message(msg_type, payload, from_agent, to_agent, session_id, priority):
\* a new AgentMessage object with a new payload object, appended to the heap.
create_message(h, id, msg_type, payload, to_agent, session_id) ==
    [objs |-> Append(h.objs, [id |-> id, to_agent |-> to_agent, type |-> msg_type,
                              payload |-> Len(h.pays) + 1, priority |-> MEDIUM,
                              session_id |-> session_id]),
     pays |-> Append(h.pays, payload)]

\* A copy that shares the payload object with its source (copy.copy).
shallowcopy(h, r) ==
    [objs |-> Append(h.objs, h.objs[r]), pays |-> h.pays]

\* copy.deepcopy(message): the new object is the last one of the returned heap.
deepcopy(h, r) ==
    [objs |-> Append(h.objs, [h.objs[r] EXCEPT !.payload = Len(h.pays) + 1]),
     pays |-> Append(h.pays, h.pays[h.objs[r].payload])]

\* The AgentMessage(...) that broadcast builds from its deep copy: a new object
\* with to_agent=None that shares the copy's payload.
broadcast_msg(h, r) ==
    [objs |-> Append(h.objs, [h.objs[r] EXCEPT !.to_agent = Nil]), pays |-> h.pays]

\* The fields of the object at r, with the payload dereferenced.
ValueOf(h, r) ==
    [id |-> h.objs[r].id, to_agent |-> h.objs[r].to_agent, type |-> h.objs[r].type,
     priority |-> h.objs[r].priority, session_id |-> h.objs[r].session_id,
     payload |-> h.pays[h.objs[r].payload]]

\* Matching that ignores the subscription's type filter.
MatchesAnyType(m, sub) ==
    m.to_agent = Nil \/ m.to_agent = sub.agent_type

\* The two `continue` tests of publish: does the subscription get the message?
Matches(m, sub) ==
    /\ (m.to_agent = Nil \/ m.to_agent = sub.agent_type)
    /\ (sub.msg_type = Nil \/ m.type = sub.msg_type)

----------------------------------------------------------------------------
(* MessageBus *)

\* str(uuid.uuid4()) of the n-th execute() call.
RunIds == <<"run-1", "run-2", "run-3", "run-4">>

\* Session ids: those of the bus's own callers, and those of the execute() calls.
Sessions == BusSessions \cup {RunIds[n] : n \in 1..MaxRuns}

Advance(stk) == <<[Head(stk) EXCEPT !.i = @ + 1]>> \o Tail(stk)

\* The history entry of one publish() call.
LogEntry(h, via, orig, r) ==
    [via |-> via, orig |-> orig, origValue |-> ValueOf(h, orig), arg |-> r,
     value |-> ValueOf(h, r), subs |-> subscribers, raised |-> FALSE]

\* publish(message) up to its first handler call: the deep copy appended to the
\* session's backlog (line 47) and the snapshot list(self._subscribers.items())
\* the loop runs over (line 48).  b is [heap, messages, stack, pubLog].
publish(b, r, via, orig) ==
    LET h2 == deepcopy(b.heap, r)
        sid == b.heap.objs[r].session_id
    IN  [heap |-> h2,
         messages |-> [b.messages EXCEPT ![sid] = Append(@, Len(h2.objs))],
         stack |-> <<[k |-> Len(b.pubLog) + 1, msg |-> r, subs |-> subscribers,
                      i |-> 1]>> \o b.stack,
         pubLog |-> Append(b.pubLog, LogEntry(b.heap, via, orig, r))]

\* broadcast(message): deep copy, rebuild with to_agent=None, publish that.
broadcast(b, r) ==
    LET h1 == deepcopy(b.heap, r)
        h2 == broadcast_msg(h1, Len(h1.objs))
    IN  publish([b EXCEPT !.heap = h2], Len(h2.objs), "broadcast", r)

Bus == [heap |-> heap, messages |-> messages, stack |-> stack, pubLog |-> pubLog]

SetBus(b) ==
    /\ heap' = b.heap
    /\ messages' = b.messages
    /\ stack' = b.stack
    /\ pubLog' = b.pubLog

\* An exception that leaves publish() unwinds every publish call in progress.
HandlerPropagates(stk) == [stack |-> <<>>, propagated |-> TRUE]

\* try: handler(...) except Exception as e: logger.error(...): the loop goes on
\* with the next subscription.
HandlerRaised(stk) == [stack |-> Advance(stk), propagated |-> propagated]

\* subscribe(agent_type, msg_type, handler) -> sub_id
Subscribe(agent_type, msg_type, handler) ==
    /\ stack = <<>>
    /\ nextSub < MaxSubs
    /\ nextSub' = nextSub + 1
    /\ subscribers' = Append(subscribers, [id |-> nextSub + 1, agent_type |-> agent_type,
                                           msg_type |-> msg_type, handler |-> handler])
    /\ UNCHANGED <<messages, heap, stack, pubLog, delivered, propagated>>
    /\ UNCHANGED nonBusVars

\* unsubscribe(subscription_id): self._subscribers.pop(subscription_id, None)
Unsubscribe(id) ==
    /\ stack = <<>>
    /\ subscribers' = SelectSeq(subscribers, LAMBDA s : s.id # id)
    /\ UNCHANGED <<messages, heap, stack, nextSub, pubLog, delivered, propagated>>
    /\ UNCHANGED nonBusVars

\* A caller creates a message and calls publish(message).
Publish(to_agent, msg_type, session_id) ==
    /\ stack = <<>>
    /\ Len(pubLog) < MaxPublish
    /\ LET h1 == create_message(heap, Len(pubLog) + 1, msg_type, "value", to_agent,
                                session_id)
       IN  SetBus(publish([Bus EXCEPT !.heap = h1], Len(h1.objs), "publish",
                          Len(h1.objs)))
    /\ UNCHANGED <<subscribers, nextSub, delivered, propagated>>
    /\ UNCHANGED nonBusVars

\* A caller creates a message and calls broadcast(message).
Broadcast(to_agent, msg_type, session_id) ==
    /\ stack = <<>>
    /\ Len(pubLog) < MaxPublish
    /\ LET h1 == create_message(heap, Len(pubLog) + 1, msg_type, "value", to_agent,
                                session_id)
       IN  SetBus(broadcast([Bus EXCEPT !.heap = h1], Len(h1.objs)))
    /\ UNCHANGED <<subscribers, nextSub, delivered, propagated>>
    /\ UNCHANGED nonBusVars

Top == Head(stack)
TopSub == Top.subs[Top.i]
InLoop == stack # <<>> /\ Top.i <= Len(Top.subs)

\* handler(copy.deepcopy(message)), line 54: the heap with the handler's copy,
\* and the history entry of the call.
HandlerCall == deepcopy(heap, Top.msg)
Delivery(h) == [sub |-> TopSub.id, k |-> Top.k, ref |-> Len(h.objs),
                handler |-> TopSub.handler,
                live |-> \E n \in DOMAIN subscribers : subscribers[n].id = TopSub.id]

\* Lines 49-52: the subscription does not match, `continue`.
DeliverSkip ==
    /\ InLoop
    /\ ~Matches(heap.objs[Top.msg], TopSub)
    /\ stack' = Advance(stack)
    /\ UNCHANGED <<subscribers, messages, heap, nextSub, pubLog, delivered,
                   propagated>>
    /\ UNCHANGED nonBusVars

\* The handler keeps the message it was given and returns.
DeliverRecord ==
    /\ InLoop
    /\ Matches(heap.objs[Top.msg], TopSub)
    /\ \/ TopSub.handler = "record"
       \/ TopSub.handler = "publish" /\ heap.objs[Top.msg].type # Trigger
    /\ heap' = HandlerCall
    /\ delivered' = Append(delivered, Delivery(HandlerCall))
    /\ stack' = Advance(stack)
    /\ UNCHANGED <<subscribers, messages, nextSub, pubLog, propagated>>
    /\ UNCHANGED nonBusVars

\* The handler changes a field and the payload of the message it was given
\* (msg.priority = HIGH; msg.payload["key"] = "modified").
DeliverMutate ==
    /\ InLoop
    /\ Matches(heap.objs[Top.msg], TopSub)
    /\ TopSub.handler = "mutate"
    /\ LET h == HandlerCall
           c == Len(h.objs)
       IN  /\ heap' = [objs |-> [h.objs EXCEPT ![c].priority = 0],
                       pays |-> [h.pays EXCEPT ![h.objs[c].payload] = Mutated]]
           /\ delivered' = Append(delivered, Delivery(h))
    /\ stack' = Advance(stack)
    /\ UNCHANGED <<subscribers, messages, nextSub, pubLog, propagated>>
    /\ UNCHANGED nonBusVars

\* The handler raises an Exception.
DeliverRaise ==
    /\ InLoop
    /\ Matches(heap.objs[Top.msg], TopSub)
    /\ TopSub.handler = "raise"
    /\ heap' = HandlerCall
    /\ delivered' = Append(delivered, Delivery(HandlerCall))
    /\ pubLog' = [pubLog EXCEPT ![Top.k].raised = TRUE]
    /\ stack' = HandlerRaised(stack).stack
    /\ propagated' = HandlerRaised(stack).propagated
    /\ UNCHANGED <<subscribers, messages, nextSub>>
    /\ UNCHANGED nonBusVars

\* The handler publishes an answer on the same bus and session while the message
\* it was given is still being delivered: a publish() call inside publish().
DeliverPublish ==
    /\ InLoop
    /\ Matches(heap.objs[Top.msg], TopSub)
    /\ TopSub.handler = "publish"
    /\ heap.objs[Top.msg].type = Trigger
    /\ LET h == HandlerCall
           h1 == create_message(h, Len(pubLog) + 1, Reply, "value", Nil,
                                h.objs[Len(h.objs)].session_id)
       IN  /\ SetBus(publish([Bus EXCEPT !.heap = h1, !.stack = Advance(stack)],
                             Len(h1.objs), "publish", Len(h1.objs)))
           /\ delivered' = Append(delivered, Delivery(h))
    /\ UNCHANGED <<subscribers, nextSub, propagated>>
    /\ UNCHANGED nonBusVars

\* The handler calls unsubscribe(id) on the same bus while the message it was
\* given is still being delivered, and returns.
DeliverUnsubscribe(id) ==
    /\ InLoop
    /\ Matches(heap.objs[Top.msg], TopSub)
    /\ TopSub.handler = "unsubscribe"
    /\ heap' = HandlerCall
    /\ delivered' = Append(delivered, Delivery(HandlerCall))
    /\ subscribers' = SelectSeq(subscribers, LAMBDA s : s.id # id)
    /\ stack' = Advance(stack)
    /\ UNCHANGED <<messages, nextSub, pubLog, propagated>>
    /\ UNCHANGED nonBusVars

\* The loop of publish() is over: publish() returns to its caller.
PublishReturn ==
    /\ stack # <<>>
    /\ Top.i > Len(Top.subs)
    /\ stack' = Tail(stack)
    /\ UNCHANGED <<subscribers, messages, heap, nextSub, pubLog, delivered,
                   propagated>>
    /\ UNCHANGED nonBusVars

\* [copy.deepcopy(m) for m in refs]: the heap with the copies, and their refs.
RECURSIVE CopyAll(_, _)
CopyAll(h, refs) ==
    IF refs = <<>> THEN [heap |-> h, refs |-> <<>>]
    ELSE LET h1 == deepcopy(h, Head(refs))
             rest == CopyAll(h1, Tail(refs))
         IN  [heap |-> rest.heap, refs |-> <<Len(h1.objs)>> \o rest.refs]

\* get_messages(session_id): deep copies of the session's backlog, as the caller
\* reads them (the copies belong to the caller alone).
get_messages(h, M, session_id) ==
    LET c == CopyAll(h, M[session_id])
    IN  [i \in DOMAIN c.refs |-> ValueOf(c.heap, c.refs[i])]

\* clear_session(session_id): self._messages.pop(session_id, None)
clear_session(M, session_id) == [M EXCEPT ![session_id] = <<>>]

BusVarsInit ==
    /\ subscribers = <<>>
    /\ messages = [s \in Sessions |-> <<>>]
    /\ heap = [objs |-> <<>>, pays |-> <<>>]
    /\ stack = <<>>
    /\ nextSub = 0
    /\ pubLog = <<>>
    /\ delivered = <<>>
    /\ propagated = FALSE

NoResult == [phase |-> Nil, success |-> TRUE]
NoLoop == [item |-> 0, agent |-> 0, agent_results |-> <<>>, analyses |-> <<>>]
NoOutcome == [kind |-> Nil, by |-> Nil, errors_analyzed |-> 0]

\* A Pipeline(config) after construction, no execute() in progress.
PipeVarsInit(cfg) ==
    /\ config = cfg
    /\ state_manager = [states |-> <<>>, snaps |-> <<>>, cells |-> <<>>]
    /\ pc = "idle"
    /\ runs = 0
    /\ run_kwargs = {}
    /\ exec_session = Nil
    /\ phase_idx = 0
    /\ phase_results = <<>>
    /\ result = NoResult
    /\ loop = NoLoop
    /\ outcome = NoOutcome
    /\ fallback = <<>>
    /\ trace = <<>>
    /\ item_failed = {}
    /\ failures = {}

\* No state-manager call yet.
NoCall == [op |-> Nil, session_id |-> Nil]

SmVarsInit ==
    /\ now = 1
    /\ held = {}
    /\ last_call = NoCall

\* No operation, and no outcome of execute_with_timeout.
NoOp == [kind |-> Nil, step |-> Nil, iteration |-> 0, observed |-> Nil, ended |-> Nil]
NoAgentResult ==
    [kind |-> Nil, success |-> FALSE, data |-> FALSE, error_code |-> Nil,
     recoverable |-> FALSE, timed |-> FALSE]

\* BaseAgent.__init__: an idle agent.
AgentVarsInit ==
    /\ status = "idle"
    /\ agent_pc = "idle"
    /\ operation = NoOp
    /\ expired = FALSE
    /\ calls = <<>>
    /\ agent_out = NoAgentResult
    /\ agent_runs = 0

\* No Analysis, no ErrorAnalysisResult (error 0 is no error), no best fix.
NoAnalysis == [has_fix |-> FALSE, confidence |-> Nil, file_changes |-> <<>>]
NoAnalysisResult == [error |-> 0, analysis |-> NoAnalysis]
NoFix == [result |-> NoAnalysisResult, issue_number |-> 0]

\* config.py, lines 25-47: the defaults of the settings a run reads.
DefaultSettings ==
    [nightwatch_dry_run |-> FALSE, nightwatch_max_open_issues |-> MaxOpenIssues,
     nightwatch_quality_gate_enabled |-> TRUE,
     nightwatch_quality_gate_correction |-> TRUE,
     nightwatch_compound_enabled |-> TRUE]

\* No invocation yet.
RunVarsInit ==
    /\ run_pc = "idle"
    /\ run_entry = [via |-> Nil, dry_run |-> FALSE, kwargs_dry_run |-> "None",
                    slack_client |-> "None", enable_fallback |-> TRUE,
                    max_issues |-> 0]
    /\ dry_run = FALSE
    /\ settings = DefaultSettings
    /\ analyses = <<>>
    /\ report = [built |-> FALSE, total_errors_found |-> 0, errors_analyzed |-> 0,
                 pr_validation_failures |-> 0]
    /\ wip = [open_count |-> 0, slots |-> 0]
    /\ candidates = <<>>
    /\ cand_idx = 0
    /\ issues_created = <<>>
    /\ best_fix = NoFix
    /\ run_result = NoAnalysisResult
    /\ pr_validation_failures = 0
    /\ effects = <<>>
    /\ run_log = <<>>

\* Everything outside the bus as constructed; PipelineConfig() has
\* enable_fallback=True.
\* analyze_error has not been called.
NoPass == [iteration |-> 0, max_iterations |-> 0, total_tokens |-> 0, api_calls |-> 0]

NoErrorAnalysisResult ==
    [analysis |-> [confidence |-> Nil, has_fix |-> FALSE, reasoning |-> Nil,
                   root_cause |-> Nil],
     iterations |-> 0, tokens_used |-> 0, api_calls |-> 0, pass_count |-> 0]

AnVarsInit ==
    /\ an_pc = "idle"
    /\ an_settings = [nightwatch_max_iterations |-> 0,
                      nightwatch_token_budget_per_error |-> 0,
                      nightwatch_multi_pass_enabled |-> FALSE,
                      nightwatch_max_passes |-> 0]
    /\ an_error = Nil
    /\ an_pass = NoPass
    /\ an_out = NoErrorAnalysisResult
    /\ pass1_result = NoErrorAnalysisResult
    /\ an_result = NoErrorAnalysisResult
    /\ an_hist = [rounds |-> 0, stop_reasons |-> {}, causes |-> <<>>, passes |-> <<>>]

\* No document is named, no frontmatter is parsed.
NoName == <<0, <<>>>>

NoVals ==
    [error_class |-> <<>>, transaction |-> <<>>, message |-> "", root_cause |-> "",
     fix_confidence |-> "", has_fix |-> FALSE, issue_number |-> 0, pr_number |-> 0,
     tags |-> {}, first_detected |-> 0, run_id |-> 0]

\* A file that is open for writing and has nothing written to it yet.
EmptyFile == [complete |-> FALSE, keys |-> <<>>, vals |-> NoVals, body |-> ""]

NoPending == [target |-> "none", op |-> "none", name |-> NoName, content |-> EmptyFile,
              solutions |-> <<>>]

\* No document has just been compounded.
NoFresh ==
    [stage |-> "none", name |-> NoName,
     error |-> [error_class |-> <<>>, transaction |-> <<>>, message |-> ""]]

\* Nothing was searched or read since the store last changed.
NoSearch == [called |-> FALSE, roundtrip |-> FALSE, name |-> NoName, results |-> <<>>]

NoSeen == [file |-> "none", during |-> "none", complete |-> FALSE]

\* An empty knowledge directory on day 1.
KsVarsInit ==
    /\ ks_docs = <<>>
    /\ ks_index = [exists |-> FALSE, complete |-> FALSE, solutions |-> <<>>]
    /\ ks_pending = NoPending
    /\ ks_today = 1
    /\ ks_clock = 0
    /\ ks_hist = [op |-> "none", name |-> NoName, existed |-> FALSE,
                  before |-> EmptyFile, after |-> EmptyFile,
                  fresh |-> NoFresh]
    /\ ks_search = NoSearch
    /\ ks_seen = NoSeen

\* No workflow has acted.
WfVarsInit ==
    /\ wf_name = Nil
    /\ wf_kwargs = [dry_run |-> FALSE, confidences |-> <<>>, actions_taken |-> <<>>]
    /\ wf_actions = <<>>
    /\ wf_log = [attempted |-> <<>>, checked |-> <<>>, warnings |-> <<>>]

\* No batch was submitted and BATCH_STATE_DIR is empty.
NoBatch == [batch_id |-> 0, error_count |-> 0, custom_id_map |-> {}]

BtVarsInit ==
    /\ bt_pc = "idle"
    /\ bt_call = NoBatch
    /\ bt_files = <<>>
    /\ bt_next = 0
    /\ bt_seen = [by |-> "none", outcome |-> "none", state |-> NoBatch]

\* No exception: the kind of failure, its status code, its retry-after header
\* and whether its message speaks of the credit balance.
NoError == [kind |-> "none", status_code |-> 0, retry_after |-> "", credit |-> FALSE]

\* _call_claude_with_retry has not been called.
RtVarsInit ==
    /\ rt_pc = "idle"
    /\ rt_attempt = 0
    /\ rt_last_error = NoError
    /\ rt_delay = 0
    /\ rt_raised = NoError
    /\ rt_hist = [creates |-> 0, retried |-> {}, longest |-> 0]

\* poll_results has not been called.
NoOut == [kind |-> "none", results |-> <<>>]

PlVarsInit ==
    /\ pl_pc = "idle"
    /\ pl_args = [poll_interval |-> 0, max_wait |-> 0]
    /\ pl_elapsed = 0
    /\ pl_api = [processing_status |-> "none", results |-> <<>>]
    /\ pl_out = NoOut
    /\ pl_hist = [polls |-> 0, ended |-> FALSE]

\* detect_patterns has not been called.
PdVarsInit ==
    /\ pd_call = [called |-> FALSE, analyses |-> <<>>, min_cluster_size |-> 0]
    /\ pd_patterns = <<>>

\* _single_pass has not been called.
CvVarsInit ==
    /\ cv_pc = "idle"
    /\ cv_iteration = [iteration |-> 0, max_iterations |-> 0]
    /\ cv_messages = <<>>
    /\ cv_hist = <<>>

LateInit == RtVarsInit /\ PlVarsInit /\ PdVarsInit /\ CvVarsInit

ExtInit == AnVarsInit /\ KsVarsInit /\ WfVarsInit /\ BtVarsInit /\ LateInit

CoreInit ==
    PipeVarsInit([enable_fallback |-> TRUE]) /\ SmVarsInit /\ AgentVarsInit
        /\ RunVarsInit

RestInit == CoreInit /\ ExtInit

\* A bus on its own.
BusInit == BusVarsInit /\ RestInit

BusNext ==
    \/ \E k \in SubKinds, h \in Handlers : Subscribe(k[1], k[2], h)
    \/ \E id \in 1..MaxSubs : Unsubscribe(id)
    \/ \E a \in {Nil, Target}, t \in BusTypes : Publish(a, t, "s1")
    \/ \E t \in BusTypes : Broadcast(Target, t, "s2")
    \/ DeliverSkip
    \/ DeliverRecord
    \/ DeliverMutate
    \/ DeliverRaise
    \/ DeliverPublish
    \/ \E id \in 1..MaxSubs : DeliverUnsubscribe(id)
    \/ PublishReturn

SpecBus == BusInit /\ [][BusNext]_vars

----------------------------------------------------------------------------
(* Properties of the message bus, checked under SpecBus *)

\* publish() call k has returned.
Completed(k) == \A j \in DOMAIN stack : stack[j].k # k

\* How many times the handler of subscription id was called for publish call k.
Deliveries(k, id) ==
    Cardinality({i \in DOMAIN delivered : delivered[i].k = k /\ delivered[i].sub = id})

\* The publish calls of a session, in call order, and the messages they published.
PublishedIn(session_id) ==
    SelectSeq(pubLog, LAMBDA e : e.value.session_id = session_id)
PublishedValues(session_id) ==
    [i \in DOMAIN PublishedIn(session_id) |-> PublishedIn(session_id)[i].value]
StoredValues(session_id) ==
    [i \in DOMAIN messages[session_id] |-> ValueOf(heap, messages[session_id][i])]

\* The recipient the bus works with: broadcast clears the caller's to_agent.
Recipient(e) == IF e.via = "broadcast" THEN Nil ELSE e.origValue.to_agent

\* Whether a subscription is to get the message of a publish call, as the
\* specification of publish and broadcast states it.
ShouldGet(e, sub) ==
    /\ (Recipient(e) = Nil \/ Recipient(e) = sub.agent_type)
    /\ (sub.msg_type = Nil \/ sub.msg_type = e.origValue.type)

\* C7: what a handler does to the message it was given (its fields, its payload)
\* is seen by nobody else: the publisher's original, the stored copy, the copies
\* given to the other handlers and what get_messages returns all keep the
\* published value.
C7_MessageIsolation ==
    /\ \A k \in DOMAIN pubLog : ValueOf(heap, pubLog[k].orig) = pubLog[k].origValue
    /\ \A s \in Sessions : StoredValues(s) = PublishedValues(s)
    /\ \A i \in DOMAIN delivered :
          delivered[i].handler # "mutate"
              => ValueOf(heap, delivered[i].ref) = pubLog[delivered[i].k].value
    /\ \A s \in Sessions : get_messages(heap, messages, s) = PublishedValues(s)

\* A handler has changed its copy, a later handler got the same message, and
\* the publish call is over.
C7_Witness ==
    /\ stack = <<>>
    /\ \E i, j \in DOMAIN delivered :
          /\ i < j
          /\ delivered[i].k = delivered[j].k
          /\ delivered[i].handler = "mutate"
          /\ ValueOf(heap, delivered[i].ref).payload = Mutated
          /\ delivered[j].handler = "record"

\* C8: a handler that raises stops neither the delivery to the other matching
\* handlers nor the storing of the message, and nothing leaves publish().
C8_RaisingHandlerContained ==
    /\ ~propagated
    /\ \A k \in DOMAIN pubLog :
          pubLog[k].raised =>
              /\ \E i \in DOMAIN messages[pubLog[k].value.session_id] :
                    heap.objs[messages[pubLog[k].value.session_id][i]].id
                        = pubLog[k].value.id
              /\ Completed(k) =>
                    \A n \in DOMAIN pubLog[k].subs :
                        ShouldGet(pubLog[k], pubLog[k].subs[n])
                            => Deliveries(k, pubLog[k].subs[n].id) = 1

\* A handler raised, and a handler after it was called for the same message.
C8_Witness ==
    /\ stack = <<>>
    /\ \E i, j \in DOMAIN delivered :
          /\ i < j
          /\ delivered[i].k = delivered[j].k
          /\ delivered[i].handler = "raise"
          /\ delivered[i].sub # delivered[j].sub

\* C9: every subscriber is handed the messages of a session in the order in
\* which they were published, publishes made inside a handler included.
C9_DeliveryInPublishOrder ==
    \A i, j \in DOMAIN delivered :
        /\ i < j
        /\ delivered[i].sub = delivered[j].sub
        /\ pubLog[delivered[i].k].value.session_id
              = pubLog[delivered[j].k].value.session_id
        => delivered[i].k < delivered[j].k

\* C10: once publish(msg) has returned, each subscription's handler was called
\* exactly once if the subscription matches (recipient and type filter) and not
\* at all otherwise; broadcast is publish with to_agent cleared; the message is
\* in its session's backlog whatever the subscriptions.
C10_PublishDeliversToMatching ==
    /\ \A k \in DOMAIN pubLog :
          /\ pubLog[k].value = [pubLog[k].origValue EXCEPT !.to_agent = Recipient(pubLog[k])]
          /\ Completed(k) =>
                \A n \in DOMAIN pubLog[k].subs :
                    Deliveries(k, pubLog[k].subs[n].id)
                        = IF ShouldGet(pubLog[k], pubLog[k].subs[n]) THEN 1 ELSE 0
          /\ \A i \in DOMAIN delivered :
                delivered[i].k = k =>
                    \E n \in DOMAIN pubLog[k].subs : pubLog[k].subs[n].id = delivered[i].sub
    /\ \A s \in Sessions :
          [i \in DOMAIN messages[s] |-> heap.objs[messages[s][i]].id]
              = [i \in DOMAIN PublishedIn(s) |-> PublishedIn(s)[i].value.id]

\* A broadcast of a message addressed to Target has returned: a subscription of
\* another agent type got it, a subscription whose type filter does not match
\* did not, and it is stored.
C10_Witness ==
    /\ stack = <<>>
    /\ \E k \in DOMAIN pubLog :
          /\ pubLog[k].via = "broadcast"
          /\ pubLog[k].origValue.to_agent = Target
          /\ \E n \in DOMAIN pubLog[k].subs :
                /\ pubLog[k].subs[n].agent_type # Target
                /\ Deliveries(k, pubLog[k].subs[n].id) = 1
    /\ \E k \in DOMAIN pubLog :
          /\ pubLog[k].subs # <<>>
          /\ \A n \in DOMAIN pubLog[k].subs : Deliveries(k, pubLog[k].subs[n].id) = 0
          /\ messages[pubLog[k].value.session_id] # <<>>

\* C36: once unsubscribe(id) has returned, the handler of that subscription is
\* called for no message, whether unsubscribe was called between two publish
\* calls or by another handler while a publish call is delivering.
C36_UnsubscribedNotInvoked == \A i \in DOMAIN delivered : delivered[i].live

----------------------------------------------------------------------------
(* types/orchestration.py *)

\* The members of ExecutionPhase.
ExecutionPhase == {"ingestion", "enrichment", "analysis", "synthesis", "reporting",
                   "action", "learning", "complete"}

\* A timestamp that is None; the clock reads later than it.
NoTime == 0

\* The fields of PipelineState that hold a list or a dict: the snapshot holds a
\* reference to the object.
ContainerFields == {"errors_data", "analyses_data", "metadata"}

\* PipelineTimestamps(started=...)
PipelineTimestamps(started) ==
    [started |-> started, phase_started |-> NoTime, last_updated |-> NoTime,
     completed |-> NoTime]

\* create_pipeline_state(session_id) at time t: a fresh PipelineState, the last
\* object of the returned heap, with a new list, list and dict of its own.
create_pipeline_state(M, sid, t) ==
    LET n == Len(M.cells)
    IN  [M EXCEPT !.cells = @ \o << <<>>, <<>>, {} >>,
                  !.snaps = Append(@, [session_id |-> sid,
                                       current_phase |-> "ingestion",
                                       iteration_count |-> 0,
                                       timestamps |-> PipelineTimestamps(t),
                                       errors_data |-> n + 1,
                                       analyses_data |-> n + 2,
                                       metadata |-> n + 3])]

\* A model_copy that writes the fields of the object it copies.
model_copy_in_place(M, r, update) ==
    LET o == [f \in DOMAIN M.snaps[r] |->
                IF f \in DOMAIN update THEN update[f] ELSE M.snaps[r][f]]
    IN  [M EXCEPT !.snaps = Append([@ EXCEPT ![r] = o], o)]

\* current.model_copy(update=update): a new object, the last of the returned heap,
\* with the fields of update replaced and every other field shared with object r.
model_copy(M, r, update) ==
    [M EXCEPT !.snaps = Append(@, [f \in DOMAIN M.snaps[r] |->
                                      IF f \in DOMAIN update THEN update[f]
                                      ELSE M.snaps[r][f]])]

\* What a holder of the snapshot object r reads from it: its fields, and the
\* contents of its lists and its dict.
Snapshot(M, r) ==
    [f \in DOMAIN M.snaps[r] |->
        IF f \in ContainerFields THEN M.cells[M.snaps[r][f]] ELSE M.snaps[r][f]]

----------------------------------------------------------------------------
(* StateManager.  states is _states, a function whose domain is the sessions   *)
(* it holds and whose values are references to snapshot objects.               *)

\* self._states[session_id] = r
SetState(M, sid, r) ==
    [M EXCEPT !.states = [x \in DOMAIN M.states \cup {sid} |->
                            IF x = sid THEN r ELSE M.states[x]]]

\* initialize_state(session_id)
initialize_state(M, sid, t) ==
    LET M1 == create_pipeline_state(M, sid, t)
    IN  SetState(M1, sid, Len(M1.snaps))

\* get_state raises KeyError for a session the manager does not hold.
HasState(M, sid) == sid \in DOMAIN M.states

\* get_state(session_id), as its caller reads it.
get_state(M, sid) == Snapshot(M, M.states[sid])

\* update_state(session_id, **updates) at time t.  A list or dict among the
\* updates is the caller's object and is referenced, not copied; without
\* "timestamps" among the updates last_updated is set to now.
update_state(M, sid, updates, t) ==
    LET r == M.states[sid]
        current == M.snaps[r]
        Given(f) == f \in DOMAIN updates
        objects == SelectSeq(<<"errors_data", "analyses_data", "metadata">>, Given)
        M1 == [M EXCEPT !.cells = @ \o [i \in 1..Len(objects) |-> updates[objects[i]]]]
        RefOf(f) == Len(M.cells) + (CHOOSE i \in 1..Len(objects) : objects[i] = f)
        timestamps == IF "timestamps" \in DOMAIN updates THEN updates.timestamps
                      ELSE [current.timestamps EXCEPT !.last_updated = t]
        update == [f \in DOMAIN updates \cup {"timestamps"} |->
                      IF f = "timestamps" THEN timestamps
                      ELSE IF f \in ContainerFields THEN RefOf(f)
                      ELSE updates[f]]
        M2 == model_copy(M1, r, update)
    IN  SetState(M2, sid, Len(M2.snaps))

\* set_phase(session_id, phase)
set_phase(M, sid, phase, t) ==
    update_state(M, sid,
        [current_phase |-> phase,
         timestamps |-> [M.snaps[M.states[sid]].timestamps
                            EXCEPT !.phase_started = t, !.last_updated = t]], t)

\* increment_iteration(session_id)
increment_iteration(M, sid, t) ==
    update_state(M, sid,
        [iteration_count |-> M.snaps[M.states[sid]].iteration_count + 1], t)

\* complete(session_id)
complete(M, sid, t) ==
    update_state(M, sid,
        [current_phase |-> "complete",
         timestamps |-> [M.snaps[M.states[sid]].timestamps
                            EXCEPT !.completed = t, !.last_updated = t]], t)

\* A remove_state that keeps the snapshot.
remove_state_kept(M, sid) == M

\* remove_state(session_id): self._states.pop(session_id, None)
remove_state(M, sid) ==
    [M EXCEPT !.states = [x \in DOMAIN M.states \ {sid} |-> M.states[x]]]

----------------------------------------------------------------------------
(* Callers of a StateManager of their own *)

StateSessions == {"s1", "s2"}

\* The updates callers pass to update_state: a counter, a list and a dict, and a
\* PipelineTimestamps(started=1) of their own making.
Updates ==
    << [iteration_count |-> 3],
       [errors_data |-> <<1>>, metadata |-> {"k"}],
       [timestamps |-> PipelineTimestamps(1)] >>

\* The snapshot a call returns is in its caller's hands, with what it reads now.
Handed(M) == held \cup {[ref |-> Len(M.snaps), seen |-> Snapshot(M, Len(M.snaps))]}

\* The record of a call that took manager state_manager to M: the kwargs that
\* reached update_state, and the session's snapshot before and after.
CallRecord(op, sid, updates, M) ==
    [op |-> op, session_id |-> sid, updates |-> updates,
     had |-> HasState(state_manager, sid),
     old |-> IF HasState(state_manager, sid) THEN get_state(state_manager, sid)
             ELSE get_state(M, sid),
     new |-> get_state(M, sid)]

Returned(op, sid, updates, M) ==
    /\ Len(state_manager.snaps) < MaxSnaps
    /\ state_manager' = M
    /\ held' = Handed(M)
    /\ last_call' = CallRecord(op, sid, updates, M)
    /\ UNCHANGED <<now, nonSmVars>>

CallInitializeState(sid) ==
    /\ sid \in StateSessions
    /\ Returned("initialize_state", sid, <<>>, initialize_state(state_manager, sid, now))

CallUpdateState(sid, i) ==
    /\ HasState(state_manager, sid)
    /\ Returned("update_state", sid, Updates[i],
                update_state(state_manager, sid, Updates[i], now))

CallSetPhase(sid, phase) ==
    /\ HasState(state_manager, sid)
    /\ Returned("set_phase", sid,
                [current_phase |-> phase,
                 timestamps |-> [get_state(state_manager, sid).timestamps
                                    EXCEPT !.phase_started = now, !.last_updated = now]],
                set_phase(state_manager, sid, phase, now))

CallIncrementIteration(sid) ==
    /\ HasState(state_manager, sid)
    /\ Returned("increment_iteration", sid,
                [iteration_count |-> get_state(state_manager, sid).iteration_count + 1],
                increment_iteration(state_manager, sid, now))

CallComplete(sid) ==
    /\ HasState(state_manager, sid)
    /\ Returned("complete", sid,
                [current_phase |-> "complete",
                 timestamps |-> [get_state(state_manager, sid).timestamps
                                    EXCEPT !.completed = now, !.last_updated = now]],
                complete(state_manager, sid, now))

CallRemoveState(sid) ==
    /\ HasState(state_manager, sid)
    /\ state_manager' = remove_state(state_manager, sid)
    /\ last_call' = [op |-> "remove_state", session_id |-> sid]
    /\ UNCHANGED <<now, held, nonSmVars>>

\* Time passes.
Tick ==
    /\ now < MaxClock
    /\ now' = now + 1
    /\ UNCHANGED <<held, last_call, state_manager, nonSmVars>>

StateInit == BusVarsInit /\ RestInit

StateNext ==
    \/ \E sid \in StateSessions : CallInitializeState(sid)
    \/ \E sid \in StateSessions, i \in DOMAIN Updates : CallUpdateState(sid, i)
    \/ \E sid \in StateSessions : CallSetPhase(sid, "analysis")
    \/ \E sid \in StateSessions : CallIncrementIteration(sid)
    \/ \E sid \in StateSessions : CallComplete(sid)
    \/ \E sid \in StateSessions : CallRemoveState(sid)
    \/ Tick

SpecState == StateInit /\ [][StateNext]_vars

\* C11: whatever update_state, set_phase, increment_iteration and complete calls
\* (and initialize_state, remove_state) have been made since, the holder of a
\* snapshot reads from it what it read when it was handed it: every field, and
\* the contents of errors_data, analyses_data and metadata.
C11_SnapshotsImmutable ==
    \A h \in held : Snapshot(state_manager, h.ref) = h.seen

\* A caller holds a snapshot of a session whose current state has since got
\* another dict and been completed.
C11_Witness ==
    \E h \in held :
        LET sid == h.seen.session_id
        IN  /\ HasState(state_manager, sid)
            /\ state_manager.states[sid] # h.ref
            /\ get_state(state_manager, sid).metadata # h.seen.metadata
            /\ get_state(state_manager, sid).current_phase = "complete"
            /\ h.seen.current_phase # "complete"

\* The operations that go through update_state.
UpdatingOps == {"update_state", "set_phase", "increment_iteration", "complete"}

\* C12: a transition produced by update_state, whatever the updates, leaves
\* last_updated no earlier than it was and changes no field outside the updates
\* (of the timestamps, last_updated alone when they are not among the updates).
C12_UpdateStateFrame ==
    last_call.op \in UpdatingOps =>
        /\ last_call.new.timestamps.last_updated >= last_call.old.timestamps.last_updated
        /\ \A f \in DOMAIN last_call.new \ (DOMAIN last_call.updates \cup {"timestamps"}) :
                last_call.new[f] = last_call.old[f]
        /\ "timestamps" \notin DOMAIN last_call.updates =>
                \A g \in {"started", "phase_started", "completed"} :
                    last_call.new.timestamps[g] = last_call.old.timestamps[g]

\* C13: complete leaves the session in COMPLETE with completed set, and no
\* operation on a session that is in COMPLETE gives it another current phase.
C13_CompleteIsTerminal ==
    /\ last_call.op = "complete" =>
            /\ last_call.new.current_phase = "complete"
            /\ last_call.new.timestamps.completed # NoTime
    /\ (last_call.op \in UpdatingOps /\ last_call.old.current_phase = "complete")
        => last_call.new.current_phase = "complete"

----------------------------------------------------------------------------
(* Pipeline *)

\* The phases in an order that runs ANALYSIS before ENRICHMENT.
build_phases_swapped ==
    << [name |-> "ingestion", agent_types |-> <<>>, per_error |-> FALSE, custom |-> TRUE],
       [name |-> "analysis", agent_types |-> <<"analyzer">>, per_error |-> TRUE,
        custom |-> FALSE],
       [name |-> "enrichment", agent_types |-> <<"researcher">>, per_error |-> FALSE,
        custom |-> FALSE],
       [name |-> "synthesis", agent_types |-> <<"pattern_detector">>, per_error |-> FALSE,
        custom |-> FALSE],
       [name |-> "reporting", agent_types |-> <<"reporter">>, per_error |-> FALSE,
        custom |-> FALSE],
       [name |-> "action", agent_types |-> <<"validator", "reporter">>,
        per_error |-> FALSE, custom |-> FALSE],
       [name |-> "learning", agent_types |-> <<>>, per_error |-> FALSE, custom |-> TRUE] >>

\* Pipeline._build_phases(): self._phases
build_phases ==
    << [name |-> "ingestion", agent_types |-> <<>>, per_error |-> FALSE, custom |-> TRUE],
       [name |-> "enrichment", agent_types |-> <<"researcher">>, per_error |-> FALSE,
        custom |-> FALSE],
       [name |-> "analysis", agent_types |-> <<"analyzer">>, per_error |-> TRUE,
        custom |-> FALSE],
       [name |-> "synthesis", agent_types |-> <<"pattern_detector">>, per_error |-> FALSE,
        custom |-> FALSE],
       [name |-> "reporting", agent_types |-> <<"reporter">>, per_error |-> FALSE,
        custom |-> FALSE],
       [name |-> "action", agent_types |-> <<"validator", "reporter">>,
        per_error |-> FALSE, custom |-> FALSE],
       [name |-> "learning", agent_types |-> <<>>, per_error |-> FALSE, custom |-> TRUE] >>

phase_def == build_phases[phase_idx]

\* A test that treats INGESTION alone as critical.
IsCriticalIngestionOnly(phase) == phase = "ingestion"

\* if phase_def.name in (ExecutionPhase.INGESTION, ExecutionPhase.ANALYSIS): raise
IsCritical(phase) == phase \in {"ingestion", "analysis"}

\* The keys the caller of execute() passes in the runs modelled here.
KwargKeys == {"since", "agent_name", "github_client"}

\* A fallback that hands every caller kwarg to run().
v1_kwargs_unfiltered(kwargs) == kwargs

\* _fallback: v1_kwargs = {k: v for k, v in run_kwargs.items() if k in allowed}
v1_kwargs(kwargs) ==
    kwargs \cap {"since", "max_errors", "max_issues", "dry_run", "verbose", "model",
                 "agent_name"}

\* An _execute_phase without its try/except: the exception reaches execute().
execute_phase_reraises(phase) ==
    [pc |-> "except", result |-> [phase |-> Nil, success |-> TRUE]]

\* _execute_phase: except Exception -> PhaseResult(phase, success=False, ...)
execute_phase_except(phase) ==
    [pc |-> "check", result |-> [phase |-> phase, success |-> FALSE]]

\* A phase result that is good as soon as one agent succeeded.
agent_phase_success_any(agent_results) ==
    \E a \in DOMAIN agent_results : agent_results[a]

\* _run_agent_phase: success = all(r.success for r in agent_results.values())
agent_phase_success(agent_results) ==
    \A a \in DOMAIN agent_results : agent_results[a]

\* agent_results[agent_type] = result
SetResult(agent_results, agent_type, success) ==
    [a \in DOMAIN agent_results \cup {agent_type} |->
        IF a = agent_type THEN success ELSE agent_results[a]]

\* _store_agent_result(session_id, phase, agent_type, result) for a successful
\* result with data: the metadata key the phase's agent leaves behind.
store_agent_result(M, sid, phase, agent_type, t) ==
    LET key == IF phase = "synthesis" /\ agent_type = "pattern_detector" THEN {"patterns"}
               ELSE IF phase = "reporting" /\ agent_type = "reporter" THEN {"report_sent"}
               ELSE IF phase = "action" /\ agent_type = "validator"
                    THEN {"validation_result"}
               ELSE {}
    IN  update_state(M, sid, [metadata |-> get_state(M, sid).metadata \cup key], t)

\* self.bus.publish(create_message(msg_type, payload, session_id=session_id)) on the
\* pipeline's bus, which has no subscribers: the call stores its copy and returns.
PipelinePublish(msg_type, payload) ==
    LET h1 == create_message(heap, Len(pubLog) + 1, msg_type, payload, Nil, exec_session)
        b == publish([Bus EXCEPT !.heap = h1], Len(h1.objs), "publish", Len(h1.objs))
    IN  /\ heap' = b.heap
        /\ messages' = b.messages
        /\ pubLog' = b.pubLog
        /\ UNCHANGED <<subscribers, stack, nextSub, delivered, propagated>>

Event(op, phase) == [op |-> op, phase |-> phase]

\* execute(**run_kwargs), lines 88-90.
Execute(kwargs) ==
    /\ pc = "idle"
    /\ runs < MaxRuns
    /\ runs' = runs + 1
    /\ run_kwargs' = kwargs
    /\ exec_session' = RunIds[runs + 1]
    /\ phase_idx' = 0
    /\ phase_results' = <<>>
    /\ result' = NoResult
    /\ loop' = NoLoop
    /\ outcome' = NoOutcome
    /\ fallback' = <<>>
    /\ trace' = <<>>
    /\ item_failed' = {}
    /\ failures' = {}
    /\ pc' = "initialize"
    /\ UNCHANGED <<config, state_manager>>
    /\ UNCHANGED busVars
    /\ UNCHANGED nonPipeVars

\* Line 93: state = self.state_manager.initialize_state(session_id)
InitializeState ==
    /\ pc = "initialize"
    /\ state_manager' = initialize_state(state_manager, exec_session, now)
    /\ trace' = Append(trace, Event("initialize_state", Nil))
    /\ phase_idx' = 1
    /\ pc' = "set_phase"
    /\ UNCHANGED <<config, runs, run_kwargs, exec_session, phase_results, result, loop,
                   outcome, fallback, item_failed, failures>>
    /\ UNCHANGED busVars
    /\ UNCHANGED nonPipeVars

\* Lines 97-105: set_phase(session_id, phase_def.name), then the PHASE_COMPLETE
\* "starting" notice on the bus.  set_phase raises KeyError without a state.
BeginPhase ==
    /\ pc = "set_phase"
    /\ IF HasState(state_manager, exec_session)
       THEN /\ state_manager' = set_phase(state_manager, exec_session, phase_def.name, now)
            /\ trace' = Append(trace, Event("set_phase", phase_def.name))
            /\ PipelinePublish("phase_complete", phase_def.name)
            /\ pc' = "execute_phase"
       ELSE /\ pc' = "except"
            /\ UNCHANGED <<state_manager, trace>>
            /\ UNCHANGED busVars
    /\ UNCHANGED <<config, runs, run_kwargs, exec_session, phase_idx, phase_results,
                   result, loop, outcome, fallback, item_failed, failures>>
    /\ UNCHANGED nonPipeVars

\* _execute_phase -> _run_ingestion, which succeeds with n errors selected: the
\* errors and the counts go to the state and ERRORS_READY to the bus.
RunIngestion(n) ==
    /\ pc = "execute_phase"
    /\ phase_def.custom /\ phase_def.name = "ingestion"
    /\ state_manager' = update_state(state_manager, exec_session,
                    [errors_data |-> [i \in 1..n |-> i],
                     metadata |-> {"total_errors_found", "errors_filtered", "traces_map",
                                   "since"}], now)
    /\ PipelinePublish("errors_ready", "value")
    /\ trace' = Append(trace, Event("phase", "ingestion"))
    /\ result' = [phase |-> "ingestion", success |-> TRUE]
    /\ pc' = "check"
    /\ UNCHANGED <<config, runs, run_kwargs, exec_session, phase_idx, phase_results, loop,
                   outcome, fallback, item_failed, failures>>
    /\ UNCHANGED nonPipeVars

\* _run_ingestion catches an exception of its own (settings, the New Relic
\* client, filtering, ranking): PhaseResult(INGESTION, success=False).
RunIngestionFails ==
    /\ pc = "execute_phase"
    /\ phase_def.custom /\ phase_def.name = "ingestion"
    /\ trace' = Append(trace, Event("phase", "ingestion"))
    /\ result' = [phase |-> "ingestion", success |-> FALSE]
    /\ pc' = "check"
    /\ UNCHANGED <<config, state_manager, runs, run_kwargs, exec_session, phase_idx,
                   phase_results, loop, outcome, fallback, item_failed>>
    /\ failures' = failures \cup {[phase |-> "ingestion", how |-> "failed"]}
    /\ UNCHANGED busVars
    /\ UNCHANGED nonPipeVars

\* _execute_phase -> _run_learning: success, or its own except branch.
RunLearning(success) ==
    /\ pc = "execute_phase"
    /\ phase_def.custom /\ phase_def.name = "learning"
    /\ trace' = Append(trace, Event("phase", "learning"))
    /\ result' = [phase |-> "learning", success |-> success]
    /\ pc' = "check"
    /\ UNCHANGED <<config, state_manager, runs, run_kwargs, exec_session, phase_idx,
                   phase_results, loop, outcome, fallback, item_failed>>
    /\ failures' = IF success THEN failures
                   ELSE failures \cup {[phase |-> "learning", how |-> "failed"]}
    /\ UNCHANGED busVars
    /\ UNCHANGED nonPipeVars

\* _execute_phase -> _run_agent_phase, lines 190-206: the loop is set up.
StartAgentPhase ==
    /\ pc = "execute_phase"
    /\ ~phase_def.custom
    /\ trace' = Append(trace, Event("phase", phase_def.name))
    /\ loop' = [item |-> 1, agent |-> 1, agent_results |-> <<>>, analyses |-> <<>>]
    /\ pc' = "agents"
    /\ UNCHANGED <<config, state_manager, runs, run_kwargs, exec_session, phase_idx,
                   phase_results, result, outcome, fallback, item_failed, failures>>
    /\ UNCHANGED busVars
    /\ UNCHANGED nonPipeVars

\* for error_data in errors (per_error), or the single round of the other phases.
Items == IF phase_def.per_error THEN Len(get_state(state_manager, exec_session).errors_data) ELSE 1
LoopDone == loop.item > Items
agent_type == phase_def.agent_types[loop.agent]

\* The loop variables after the current agent_type of the current item.
NextInLoop(l) ==
    IF l.agent < Len(phase_def.agent_types)
    THEN [l EXCEPT !.agent = @ + 1]
    ELSE [l EXCEPT !.agent = 1, !.item = @ + 1]

\* Lines 209-226 / 233-252: agent.execute returns success with data.
AgentSucceeds ==
    /\ pc = "agents" /\ ~LoopDone
    /\ loop' = NextInLoop([loop EXCEPT
                  !.agent_results = SetResult(@, agent_type, TRUE),
                  !.analyses = IF phase_def.per_error THEN Append(@, loop.item) ELSE @])
    /\ state_manager' = IF phase_def.per_error THEN state_manager
                 ELSE store_agent_result(state_manager, exec_session, phase_def.name,
                                         agent_type, now)
    /\ UNCHANGED <<config, pc, runs, run_kwargs, exec_session, phase_idx, phase_results,
                   result, outcome, fallback, trace, item_failed, failures>>
    /\ UNCHANGED busVars
    /\ UNCHANGED nonPipeVars

\* Lines 209-226 / 233-252: agent.execute returns AgentResult(success=False), as
\* execute_with_timeout does on a timeout or an exception of the agent.
AgentFails ==
    /\ pc = "agents" /\ ~LoopDone
    /\ loop' = NextInLoop([loop EXCEPT !.agent_results = SetResult(@, agent_type, FALSE)])
    /\ item_failed' = IF phase_def.per_error THEN item_failed \cup {loop.item}
                      ELSE item_failed
    /\ UNCHANGED <<config, state_manager, pc, runs, run_kwargs, exec_session, phase_idx,
                   phase_results, result, outcome, fallback, trace>>
    /\ failures' = failures \cup {[phase |-> phase_def.name, how |-> "failed"]}
    /\ UNCHANGED busVars
    /\ UNCHANGED nonPipeVars

\* An exception leaves _run_agent_phase (an import, create_agent,
\* _build_agent_state, an agent that raises): _execute_phase's except branch.
AgentPhaseRaises ==
    /\ pc = "agents" /\ ~LoopDone
    /\ result' = execute_phase_except(phase_def.name).result
    /\ pc' = execute_phase_except(phase_def.name).pc
    /\ loop' = NoLoop
    /\ UNCHANGED <<config, state_manager, runs, run_kwargs, exec_session, phase_idx,
                   phase_results, outcome, fallback, trace, item_failed>>
    /\ failures' = failures \cup {[phase |-> phase_def.name, how |-> "raised"]}
    /\ UNCHANGED busVars
    /\ UNCHANGED nonPipeVars

\* Lines 229, 254-262: the analyses are stored (per_error) and the PhaseResult
\* is built from the agent results.
EndAgentPhase ==
    /\ pc = "agents" /\ LoopDone
    /\ state_manager' = IF phase_def.per_error
                 THEN update_state(state_manager, exec_session,
                                   [analyses_data |-> loop.analyses], now)
                 ELSE state_manager
    /\ result' = [phase |-> phase_def.name,
                  success |-> agent_phase_success(loop.agent_results)]
    /\ loop' = NoLoop
    /\ pc' = "check"
    /\ UNCHANGED <<config, runs, run_kwargs, exec_session, phase_idx, phase_results,
                   outcome, fallback, trace, item_failed, failures>>
    /\ UNCHANGED busVars
    /\ UNCHANGED nonPipeVars

\* Lines 108-121: the result is recorded; a failed critical phase raises.
CheckResult ==
    /\ pc = "check"
    /\ phase_results' = Append(phase_results, result)
    /\ result' = NoResult
    /\ IF ~result.success /\ IsCritical(phase_def.name)
       THEN pc' = "except" /\ UNCHANGED phase_idx
       ELSE IF phase_idx < Len(build_phases)
            THEN pc' = "set_phase" /\ phase_idx' = phase_idx + 1
            ELSE pc' = "complete" /\ UNCHANGED phase_idx
    /\ UNCHANGED <<config, state_manager, runs, run_kwargs, exec_session, loop, outcome,
                   fallback, trace, item_failed, failures>>
    /\ UNCHANGED busVars
    /\ UNCHANGED nonPipeVars

\* Lines 124-152: complete(session_id), the RunReport built from the final state.
Complete ==
    /\ pc = "complete"
    /\ state_manager' = complete(state_manager, exec_session, now)
    /\ trace' = Append(trace, Event("complete", Nil))
    /\ outcome' = [kind |-> "report", by |-> "pipeline",
                   errors_analyzed |-> Len(get_state(state_manager, exec_session).analyses_data)]
    /\ pc' = "finally"
    /\ UNCHANGED <<config, runs, run_kwargs, exec_session, phase_idx, phase_results,
                   result, loop, fallback, item_failed, failures>>
    /\ UNCHANGED busVars
    /\ UNCHANGED nonPipeVars

\* Lines 154-156, 473-474: fallback disabled, _fallback raises RuntimeError.
FallbackDisabled ==
    /\ pc = "except"
    /\ ~config.enable_fallback
    /\ outcome' = [kind |-> "raised", by |-> "pipeline", errors_analyzed |-> 0]
    /\ pc' = "finally"
    /\ UNCHANGED <<config, state_manager, runs, run_kwargs, exec_session, phase_idx,
                   phase_results, result, loop, fallback, trace, item_failed, failures>>
    /\ UNCHANGED busVars
    /\ UNCHANGED nonPipeVars

\* Lines 476-482: run(**v1_kwargs) is called and returns its report, or raises
\* (the legacy run lets the failures of its clients through).
FallbackRun(returns) ==
    /\ pc = "except"
    /\ config.enable_fallback
    /\ fallback' = Append(fallback, v1_kwargs(run_kwargs))
    /\ outcome' = [kind |-> IF returns THEN "legacy_report" ELSE "raised", by |-> "run",
                   errors_analyzed |-> 0]
    /\ pc' = "finally"
    /\ UNCHANGED <<config, state_manager, runs, run_kwargs, exec_session, phase_idx,
                   phase_results, result, loop, trace, item_failed, failures>>
    /\ UNCHANGED busVars
    /\ UNCHANGED nonPipeVars

\* Lines 157-159: finally, the session leaves the bus and the state manager, and
\* execute returns or raises.
Finally ==
    /\ pc = "finally"
    /\ messages' = clear_session(messages, exec_session)
    /\ state_manager' = remove_state(state_manager, exec_session)
    /\ pc' = "done"
    /\ UNCHANGED <<subscribers, heap, stack, nextSub, pubLog, delivered, propagated>>
    /\ UNCHANGED <<config, runs, run_kwargs, exec_session, phase_idx, phase_results,
                   result, loop, outcome, fallback, trace, item_failed, failures>>
    /\ UNCHANGED nonPipeVars

\* The caller has the outcome of execute(): the locals of the call are gone.  The
\* message objects of the run are referenced by nobody once the backlogs are
\* empty, and are collected, as are the snapshots of a state manager that holds
\* no session.
Return ==
    /\ pc = "done"
    /\ pc' = "idle"
    /\ IF \A s \in Sessions : messages[s] = <<>>
       THEN /\ heap' = [objs |-> <<>>, pays |-> <<>>]
            /\ pubLog' = <<>>
       ELSE UNCHANGED <<heap, pubLog>>
    /\ phase_idx' = 0
    /\ phase_results' = <<>>
    /\ outcome' = NoOutcome
    /\ fallback' = <<>>
    /\ trace' = <<>>
    /\ item_failed' = {}
    /\ failures' = {}
    /\ UNCHANGED <<subscribers, messages, stack, nextSub, delivered, propagated>>
    /\ state_manager' = IF DOMAIN state_manager.states = {}
                        THEN [states |-> <<>>, snaps |-> <<>>, cells |-> <<>>]
                        ELSE state_manager
    /\ UNCHANGED <<config, runs, run_kwargs, exec_session, result, loop>>
    /\ UNCHANGED nonPipeVars

Init ==
    /\ BusVarsInit
    /\ \E b \in BOOLEAN : PipeVarsInit([enable_fallback |-> b])
    /\ SmVarsInit
    /\ AgentVarsInit
    /\ RunVarsInit
    /\ ExtInit

Next ==
    \/ \E kwargs \in SUBSET KwargKeys : Execute(kwargs)
    \/ InitializeState
    \/ BeginPhase
    \/ \E n \in 0..MaxErrors : RunIngestion(n)
    \/ RunIngestionFails
    \/ \E success \in BOOLEAN : RunLearning(success)
    \/ StartAgentPhase
    \/ AgentSucceeds
    \/ AgentFails
    \/ AgentPhaseRaises
    \/ EndAgentPhase
    \/ CheckResult
    \/ Complete
    \/ FallbackDisabled
    \/ \E returns \in BOOLEAN : FallbackRun(returns)
    \/ Finally
    \/ Return

Spec == Init /\ [][Next]_vars

----------------------------------------------------------------------------
(* Properties of the pipeline, checked under Spec *)

\* The order of the phases as the specification gives it.
PhaseOrder == <<"ingestion", "enrichment", "analysis", "synthesis", "reporting",
                "action", "learning">>

\* The state-manager calls and phase runs of a run that goes through:
\* initialize_state, then set_phase(p) and the run of p for each phase in order,
\* then complete.
Canon ==
    <<Event("initialize_state", Nil)>>
    \o [i \in 1..(2 * Len(PhaseOrder)) |->
            IF i % 2 = 1 THEN Event("set_phase", PhaseOrder[(i + 1) \div 2])
            ELSE Event("phase", PhaseOrder[i \div 2])]
    \o <<Event("complete", Nil)>>

IsPrefix(p, q) == Len(p) <= Len(q) /\ \A i \in DOMAIN p : p[i] = q[i]

Failed(r) == ~r.success
CriticalPhases == {"ingestion", "analysis"}
CriticalFailureAt(i) == phase_results[i].phase \in CriticalPhases /\ Failed(phase_results[i])
NonCriticalFailureAt(i) ==
    phase_results[i].phase \notin CriticalPhases /\ Failed(phase_results[i])
NoCriticalFailure ==
    /\ \A i \in DOMAIN phase_results : ~CriticalFailureAt(i)
    /\ ~(result.phase \in CriticalPhases /\ Failed(result))

\* C1: the calls of a run are a prefix of initialize_state, set_phase(INGESTION),
\* INGESTION, ..., set_phase(LEARNING), LEARNING, complete: initialize_state comes
\* first, set_phase(p) right before p runs, no phase runs twice or out of order;
\* the state's current phase is the one last set, and is COMPLETE only after
\* LEARNING has run.
C1_PhasesInOrder ==
    /\ IsPrefix(trace, Canon)
    /\ HasState(state_manager, exec_session) =>
          /\ trace # <<>>
          /\ get_state(state_manager, exec_session).current_phase = "complete"
                => \E i \in DOMAIN trace : trace[i] = Event("phase", "learning")
          /\ \A i \in DOMAIN trace :
                (trace[i].op = "set_phase"
                    /\ \A j \in (i + 1)..Len(trace) : trace[j].op = "phase")
                    => get_state(state_manager, exec_session).current_phase = trace[i].phase

\* A run went through all seven phases and was marked complete.
C1_Witness ==
    /\ pc = "finally"
    /\ trace = Canon
    /\ get_state(state_manager, exec_session).current_phase = "complete"

\* C2: once INGESTION or ANALYSIS has failed, no later phase is entered and the
\* session is not marked COMPLETE.
C2_CriticalFailureAborts ==
    \A i \in DOMAIN phase_results :
        CriticalFailureAt(i) =>
            /\ i = Len(phase_results)
            /\ trace[Len(trace)] = Event("phase", phase_results[i].phase)
            /\ pc \in {"except", "finally", "done"}
            /\ outcome.kind # "report"
            /\ HasState(state_manager, exec_session)
                  => get_state(state_manager, exec_session).current_phase = phase_results[i].phase

\* ANALYSIS failed after INGESTION and ENRICHMENT went through, and the run ended.
C2_Witness ==
    /\ pc = "done"
    /\ Len(phase_results) = 3
    /\ CriticalFailureAt(3)

\* C3 as stated: a failed non-critical phase is recorded, every later phase
\* runs, and the run returns the pipeline's report without the fallback.
C3_NonCriticalFailureCompletes ==
    \A i \in DOMAIN phase_results :
        NonCriticalFailureAt(i) =>
            /\ pc # "except"
            /\ fallback = <<>>
            /\ pc = "done" =>
                  /\ outcome.kind = "report"
                  /\ [k \in DOMAIN phase_results |-> phase_results[k].phase] = PhaseOrder

\* C3 as amended: a failure in a non-critical phase (an agent's failure result,
\* an exception leaving the handler) is recorded as that phase's failed
\* PhaseResult and the next phase is entered; unless a critical phase fails,
\* every later phase runs and the run returns the pipeline's report without the
\* fallback.
C3_NonCriticalFailureContinues ==
    /\ \A f \in failures :
          f.phase \notin CriticalPhases =>
              \/ pc = "agents" /\ phase_def.name = f.phase
              \/ result.phase = f.phase /\ Failed(result)
              \/ \E i \in DOMAIN phase_results :
                    phase_results[i].phase = f.phase /\ Failed(phase_results[i])
    /\ \A i \in DOMAIN phase_results :
          NonCriticalFailureAt(i) =>
              /\ [k \in DOMAIN phase_results |-> phase_results[k].phase]
                    = SubSeq(PhaseOrder, 1, Len(phase_results))
              /\ (i = Len(phase_results) /\ pc = "check") => result.phase = PhaseOrder[i + 1]
              /\ NoCriticalFailure =>
                    /\ pc # "except"
                    /\ fallback = <<>>
                    /\ pc \in {"finally", "done"} =>
                          /\ outcome.kind = "report"
                          /\ Len(phase_results) = Len(PhaseOrder)

\* An exception left the ENRICHMENT handler, and the run returned the pipeline's
\* report after all seven phases.
C3_Witness ==
    /\ pc = "done"
    /\ [phase |-> "enrichment", how |-> "raised"] \in failures
    /\ Len(phase_results) = Len(PhaseOrder)
    /\ Failed(phase_results[2])
    /\ outcome.kind = "report"

\* The items of the stored analyses.
Analysed == {get_state(state_manager, exec_session).analyses_data[k] :
                k \in DOMAIN get_state(state_manager, exec_session).analyses_data}

\* C4: an error item whose analysis fails contributes no analysis, the other
\* items are still analysed, and the failure, wherever the item stands in the
\* list, does not fail the ANALYSIS phase (which would abort the run).
C4_FailForward ==
    \A i \in DOMAIN phase_results :
        (/\ phase_results[i].phase = "analysis"
         /\ [phase |-> "analysis", how |-> "raised"] \notin failures
         /\ HasState(state_manager, exec_session))
        => /\ Analysed \cap item_failed = {}
           /\ Analysed \cup item_failed = DOMAIN get_state(state_manager, exec_session).errors_data
           /\ phase_results[i].success

\* The keys the legacy run() accepts from the pipeline's caller.
AllowedKwargs == {"since", "max_errors", "max_issues", "dry_run", "verbose", "model",
                  "agent_name"}

\* C5: when execute is over after an aborting failure, the legacy run was called
\* exactly once with exactly the caller's allowed kwargs and execute ends as run
\* did (its report, when it returns one) if fallback is enabled, and execute
\* raised without calling run if it is disabled; without an aborting failure run
\* is not called.
C5_FallbackOnAbort ==
    pc = "done" =>
        IF \E i \in DOMAIN phase_results : CriticalFailureAt(i)
        THEN IF config.enable_fallback
             THEN /\ Len(fallback) = 1
                  /\ fallback[1] \subseteq AllowedKwargs
                  /\ fallback[1] = run_kwargs \cap AllowedKwargs
                  /\ outcome.by = "run"
                  /\ outcome.kind \in {"legacy_report", "raised"}
             ELSE /\ fallback = <<>>
                  /\ outcome.kind = "raised"
                  /\ outcome.by = "pipeline"
        ELSE /\ fallback = <<>>
             /\ outcome.kind = "report"

\* A run called with an allowed and a pipeline-only kwarg aborted and returned
\* the legacy run's report.
C5_Witness ==
    /\ pc = "done"
    /\ {"since", "github_client"} \subseteq run_kwargs
    /\ Len(fallback) = 1
    /\ outcome.kind = "legacy_report"

\* C6: when execute has returned or raised, the bus holds no message and the
\* state manager no state for the session of that run, nor of an earlier one.
C6_SessionCleared ==
    \A n \in 1..runs :
        (n < runs \/ pc \in {"done", "idle"}) =>
            /\ messages[RunIds[n]] = <<>>
            /\ ~HasState(state_manager, RunIds[n])

\* execute raised (fallback disabled) after messages of its session were stored.
C6_Witness ==
    /\ pc = "done"
    /\ outcome.kind = "raised"
    /\ outcome.by = "pipeline"
    /\ \E k \in DOMAIN pubLog : pubLog[k].value.session_id = exec_session

----------------------------------------------------------------------------
(* agents/base.py, agents/error_analyzer.py, analyzer.py: one agent and the    *)
(* operation it runs under its timeout                                         *)

\* The operations handed to execute_with_timeout: AnalyzerAgent's _run, which
\* calls the synchronous analyze_error, and a coroutine that awaits.
Operations == {"analyze_error", "coroutine"}

\* What ends an operation that is not cancelled: it returns, or raises a
\* TimeoutError of its own, another Exception, or a BaseException that is no
\* Exception (CancelledError, KeyboardInterrupt).
Raises == {"TimeoutError", "Exception", "BaseException"}

\* execute_with_timeout's try/except around wait_for, lines 111-148: the status
\* it leaves and what it returns or lets through.
wait_for(ended) ==
    CASE ended = "returned" ->
            [status |-> "completed",
             out |-> [kind |-> "result", success |-> TRUE, data |-> TRUE,
                      error_code |-> Nil, recoverable |-> TRUE, timed |-> TRUE]]
      [] ended \in {"TimeoutError", "cancelled"} ->
            [status |-> "failed",
             out |-> [kind |-> "result", success |-> FALSE, data |-> FALSE,
                      error_code |-> "TIMEOUT", recoverable |-> TRUE, timed |-> TRUE]]
      [] ended = "Exception" ->
            [status |-> "failed",
             out |-> [kind |-> "result", success |-> FALSE, data |-> FALSE,
                      error_code |-> "EXECUTION_ERROR", recoverable |-> TRUE,
                      timed |-> TRUE]]
      [] ended = "BaseException" ->
            [status |-> status, out |-> [NoAgentResult EXCEPT !.kind = "raised"]]

\* Lines 107-109: status RUNNING, the timer starts, wait_for(operation(), timeout).
ExecuteWithTimeout(kind) ==
    /\ agent_pc = "idle"
    /\ agent_runs < MaxAgentRuns
    /\ agent_runs' = agent_runs + 1
    /\ status' = "running"
    /\ operation' = [NoOp EXCEPT !.kind = kind, !.step = "start"]
    /\ expired' = FALSE
    /\ calls' = <<>>
    /\ agent_out' = NoAgentResult
    /\ agent_pc' = "operation"
    /\ UNCHANGED nonAgentVars

\* The operation takes its first step, and sees the agent's status.
OperationStarts ==
    /\ agent_pc = "operation" /\ operation.step = "start"
    /\ operation' = [operation EXCEPT !.step = "run", !.observed = status]
    /\ UNCHANGED <<status, agent_pc, expired, calls, agent_out, agent_runs>>
    /\ UNCHANGED nonAgentVars

\* timeout_seconds have passed since wait_for was called.
DeadlineExpires ==
    /\ agent_pc \in {"operation", "suspended"}
    /\ ~expired
    /\ expired' = TRUE
    /\ UNCHANGED <<status, agent_pc, operation, calls, agent_out, agent_runs>>
    /\ UNCHANGED nonAgentVars

\* The end of the operation reaches execute_with_timeout.
Ends(ended) ==
    /\ operation' = [operation EXCEPT !.ended = ended]
    /\ status' = wait_for(ended).status
    /\ agent_out' = wait_for(ended).out
    /\ agent_pc' = "returned"
    /\ UNCHANGED <<expired, calls, agent_runs>>
    /\ UNCHANGED nonAgentVars

\* analyzer._single_pass, lines 280-304: the next iteration's LLM call, made
\* synchronously inside the operation.
LlmCall(stop_reason) ==
    /\ agent_pc = "operation" /\ operation.kind = "analyze_error" /\ operation.step = "run"
    /\ operation.iteration < MaxIterations
    /\ calls' = Append(calls, [what |-> "llm", late |-> expired])
    /\ operation' = [operation EXCEPT !.iteration = @ + 1,
                        !.step = IF stop_reason = "tool_use" THEN "tools" ELSE "parsed"]
    /\ UNCHANGED <<status, agent_pc, expired, agent_out, agent_runs>>
    /\ UNCHANGED nonAgentVars

\* analyzer._single_pass, lines 306-318: the tools the response asked for.
ExecuteTools ==
    /\ agent_pc = "operation" /\ operation.kind = "analyze_error" /\ operation.step = "tools"
    /\ calls' = Append(calls, [what |-> "tool", late |-> expired])
    /\ operation' = [operation EXCEPT !.step = "run"]
    /\ UNCHANGED <<status, agent_pc, expired, agent_out, agent_runs>>
    /\ UNCHANGED nonAgentVars

\* analyzer._single_pass, lines 319-350, and error_analyzer.py 30-34: the
\* analysis is returned, parsed or cut short at the iteration limit.
AnalysisReturns ==
    /\ agent_pc = "operation" /\ operation.kind = "analyze_error"
    /\ operation.step = "parsed" \/ (operation.step = "run" /\ operation.iteration = MaxIterations)
    /\ Ends("returned")

\* The operation raises.
OperationRaises(exc) ==
    /\ agent_pc = "operation" /\ operation.step # "start"
    /\ Ends(exc)

\* A coroutine awaits something that is not ready: the event loop is free.
Suspends ==
    /\ agent_pc = "operation" /\ operation.kind = "coroutine" /\ operation.step = "run"
    /\ agent_pc' = "suspended"
    /\ UNCHANGED <<status, operation, expired, calls, agent_out, agent_runs>>
    /\ UNCHANGED nonAgentVars

\* What the coroutine awaited is ready and the loop resumes it.
Resumes ==
    /\ agent_pc = "suspended"
    /\ agent_pc' = "operation"
    /\ UNCHANGED <<status, operation, expired, calls, agent_out, agent_runs>>
    /\ UNCHANGED nonAgentVars

\* wait_for's timer is served by the event loop, which is possible while the
\* operation is suspended: the operation is cancelled, TimeoutError is raised.
TimeoutFires ==
    /\ agent_pc = "suspended" /\ expired
    /\ Ends("cancelled")

\* The coroutine returns its AgentResult.
CoroutineReturns ==
    /\ agent_pc = "operation" /\ operation.kind = "coroutine" /\ operation.step = "run"
    /\ Ends("returned")

\* agent.cleanup(), lines 84-88.
Cleanup ==
    /\ agent_pc = "returned"
    /\ status' = "idle"
    /\ agent_pc' = "idle"
    /\ UNCHANGED <<operation, expired, calls, agent_out, agent_runs>>
    /\ UNCHANGED nonAgentVars

AgentInit == BusVarsInit /\ RestInit

AgentNext ==
    \/ \E kind \in Operations : ExecuteWithTimeout(kind)
    \/ OperationStarts
    \/ DeadlineExpires
    \/ \E stop_reason \in {"tool_use", "end_turn"} : LlmCall(stop_reason)
    \/ ExecuteTools
    \/ AnalysisReturns
    \/ \E exc \in Raises : OperationRaises(exc)
    \/ Suspends
    \/ Resumes
    \/ TimeoutFires
    \/ CoroutineReturns
    \/ Cleanup

SpecAgent == AgentInit /\ [][AgentNext]_vars

\* _run_agent_phase, line 224: the result whose data goes to the analyses.
Accepted == agent_out.kind = "result" /\ agent_out.success /\ agent_out.data

\* C14: the operation starts with status RUNNING and execute_with_timeout never
\* raises; when the deadline expired it returns the TIMEOUT failure, and
\* otherwise the timed result with status COMPLETED if the operation returned
\* and the EXECUTION_ERROR failure if it raised; both failures are recoverable
\* and leave status FAILED.
C14_ExecuteWithTimeout ==
    /\ operation.step \notin {Nil, "start"} => operation.observed = "running"
    /\ agent_pc = "returned" =>
        /\ agent_out.kind = "result"
        /\ IF expired
           THEN /\ ~agent_out.success /\ agent_out.error_code = "TIMEOUT"
                /\ agent_out.recoverable /\ status = "failed"
           ELSE IF operation.ended = "returned"
           THEN agent_out.success /\ agent_out.timed /\ status = "completed"
           ELSE /\ ~agent_out.success /\ agent_out.error_code = "EXECUTION_ERROR"
                /\ agent_out.recoverable /\ status = "failed"

\* C15: once the agent's timeout has elapsed the analysis in flight makes no
\* further LLM or tool call, and its result does not reach the analyses.
C15_CancellationPropagates ==
    /\ \A i \in DOMAIN calls : ~calls[i].late
    /\ (agent_pc = "returned" /\ operation.kind = "analyze_error" /\ expired) => ~Accepted

----------------------------------------------------------------------------
(* runner.py: the legacy run(); and what of a Pipeline reaches the chat, the   *)
(* knowledge base and run(): its reporter agent, its learning phase and its    *)
(* fallback                                                                    *)
----------------------------------------------------------------------------

\* models.py, FileChange, with the paths and contents _validate_single_change
\* tells apart.  The files named exist in the repository and parse.
sound_change == [path |-> "app/a.rb", action |-> "modify", content |-> "code"]
empty_change == [path |-> "app/b.rb", action |-> "modify", content |-> ""]
corrected_change == [path |-> "app/b.rb", action |-> "modify", content |-> "fixed"]
unsafe_change == [path |-> "../b.rb", action |-> "modify", content |-> "fixed"]

\* What analyze_error returns for an error: nothing to act on, a fix the quality
\* gate rejects, a fix it accepts.
Analyses ==
    { [has_fix |-> FALSE, confidence |-> "low", file_changes |-> <<>>],
      [has_fix |-> TRUE, confidence |-> "high", file_changes |-> <<empty_change>>],
      [has_fix |-> TRUE, confidence |-> "medium", file_changes |-> <<sound_change>>] }

\* What Claude answers to the correction prompt: file_changes the gate accepts,
\* or file_changes it rejects.
Corrections == { <<corrected_change>>, <<unsafe_change>> }

\* A run's dry_run argument, and the clients a caller hands the pipeline as
\* slack_client: a SlackClient, an object that has send_run_report.
DryRunArgs == {"None", "True"}
SlackClients == {"SlackClient", "Other"}

\* The settings a run may find: NIGHTWATCH_DRY_RUN is not set.
Settings ==
    [nightwatch_dry_run : {FALSE}, nightwatch_max_open_issues : {MaxOpenIssues},
     nightwatch_quality_gate_enabled : BOOLEAN,
     nightwatch_quality_gate_correction : BOOLEAN,
     nightwatch_compound_enabled : BOOLEAN]

\* The settings the callers of a Pipeline run under: the quality gate and its
\* correction are on, as they are by default.
PipelineSettings ==
    { s \in Settings : s.nightwatch_quality_gate_enabled
                          /\ s.nightwatch_quality_gate_correction }

\* The outcomes of analyze_error for the top errors, NoAnalysis where it raised.
Outcomes == UNION { [1..n -> Analyses \cup {NoAnalysis}] : n \in 0..MaxErrors }

\* A write to the chat, the tracker or the disk.
Effect(kind, error, file_changes) ==
    [kind |-> kind, error |-> error, file_changes |-> file_changes]

\* validation/_legacy.py, lines 70-78: the path and content checks.
validate_single_change(change) ==
    IF change.path \in {"../b.rb", "/b.rb"}
    THEN <<"Unsafe path">>
    ELSE IF change.action \in {"modify", "create"} /\ change.content = ""
    THEN <<"Empty content">>
    ELSE <<>>

RECURSIVE validation_errors(_)
validation_errors(file_changes) ==
    IF file_changes = <<>>
    THEN <<>>
    ELSE validate_single_change(Head(file_changes))
             \o validation_errors(Tail(file_changes))

validate_file_changes(analysis) ==
    IF analysis.file_changes = <<>>
    THEN [is_valid |-> TRUE, errors |-> <<>>]
    ELSE LET errors == validation_errors(analysis.file_changes)
         IN  [is_valid |-> Len(errors) = 0, errors |-> errors]

\* runner.py, lines 210-265: the analyses of the errors whose analysis returned.
results(outcomes) ==
    SelectSeq([i \in 1..Len(outcomes) |-> [error |-> i, analysis |-> outcomes[i]]],
              LAMBDA r : r.analysis # NoAnalysis)

\* select_for_issues, lines 587-601, in hundredths; the analyses have no
\* suggested_next_steps and the errors the same occurrences.
issue_score(r) ==
    (IF r.analysis.has_fix THEN 50 ELSE 0)
        + (IF r.analysis.confidence = "high" THEN 30
           ELSE IF r.analysis.confidence = "medium" THEN 15 ELSE 0)
        + (IF r.analysis.file_changes # <<>> THEN 10 ELSE 0)

\* list.sort(key=issue_score, reverse=True): stable.
RECURSIVE sort_by_issue_score(_)
sort_by_issue_score(rs) ==
    IF rs = <<>>
    THEN <<>>
    ELSE LET r == rs[Len(rs)]
             sorted == sort_by_issue_score(SubSeq(rs, 1, Len(rs) - 1))
         IN  SelectSeq(sorted, LAMBDA x : issue_score(x) >= issue_score(r))
                 \o <<r>>
                 \o SelectSeq(sorted, LAMBDA x : issue_score(x) < issue_score(r))

\* Python's seq[:k].
slice(seq, k) ==
    IF k >= 0
    THEN SubSeq(seq, 1, IF k < Len(seq) THEN k ELSE Len(seq))
    ELSE SubSeq(seq, 1, IF Len(seq) + k > 0 THEN Len(seq) + k ELSE 0)

select_for_issues(results_, max_issues) ==
    slice(sort_by_issue_score(
              SelectSeq(results_, LAMBDA r : ~(r.analysis.confidence = "low"
                                               /\ ~r.analysis.has_fix))),
          max_issues)

\* Line 346 without its max(0, ...).
wip_slots_unclamped(max_open, open_count) == max_open - open_count

\* Line 346.
wip_slots(max_open, open_count) ==
    IF max_open - open_count > 0 THEN max_open - open_count ELSE 0

\* Lines 348-356.
wip_limit(selected, slots) ==
    IF slots = 0
    THEN [candidates |-> <<>>, log |-> <<"WIP limit reached">>]
    ELSE IF slots < Len(selected)
    THEN [candidates |-> slice(selected, slots), log |-> <<"WIP limit: reducing">>]
    ELSE [candidates |-> selected, log |-> <<>>]

\* Lines 619-622 without the test of issue.action.
issue_number_of_any_action(issues, error) ==
    LET made == { i \in DOMAIN issues : issues[i].error = error }
    IN  IF made = {}
        THEN 0
        ELSE issues[CHOOSE i \in made : \A j \in made : j <= i].issue_number

\* _best_fix_candidate, lines 621-625: issue_map[key] of the error.
issue_number_of(issues, error) ==
    LET made == { i \in DOMAIN issues :
                    issues[i].action = "created" /\ issues[i].error = error }
    IN  IF made = {}
        THEN 0
        ELSE issues[CHOOSE i \in made : \A j \in made : j <= i].issue_number

\* _best_fix_candidate, lines 630-648.
RECURSIVE best_fix_from(_, _, _, _)
best_fix_from(results_, issues, i, best) ==
    IF i > Len(results_)
    THEN best
    ELSE LET r == results_[i]
             issue_number == issue_number_of(issues, r.error)
         IN  IF ~r.analysis.has_fix \/ r.analysis.file_changes = <<>>
                    \/ issue_number = 0
             THEN best_fix_from(results_, issues, i + 1, best)
             ELSE IF best = NoFix
                       \/ (r.analysis.confidence = "high"
                           /\ best.result.analysis.confidence # "high")
             THEN best_fix_from(results_, issues, i + 1,
                                [result |-> r, issue_number |-> issue_number])
             ELSE best_fix_from(results_, issues, i + 1, best)

best_fix_candidate(results_, issues) == best_fix_from(results_, issues, 1, NoFix)

\* Lines 416-425 without their best_fix = None.
skip_pr_keeping_fix(fix, counted) ==
    [best_fix |-> fix, pr_validation_failures |-> counted + 1]

\* Lines 415-417, 419-421 and 423-425: the PR is skipped and the failure counted.
skip_pr(fix, counted) ==
    [best_fix |-> NoFix, pr_validation_failures |-> counted + 1]

\* Lines 394-425: the quality gate on the best fix; correction is what
\* _attempt_correction returns, NoAnalysis for None.
quality_gate(fix, counted, s, correction) ==
    LET result_ == fix.result
        kept == [best_fix |-> fix, pr_validation_failures |-> counted]
    IN  IF ~(s.nightwatch_quality_gate_enabled
             /\ result_.analysis.file_changes # <<>>)
        THEN kept @@ [result |-> result_, log |-> <<>>]
        ELSE IF validate_file_changes(result_.analysis).is_valid
        THEN kept @@ [result |-> result_, log |-> <<"validate_file_changes">>]
        ELSE IF ~s.nightwatch_quality_gate_correction
        THEN skip_pr(fix, counted)
                 @@ [result |-> result_,
                     log |-> <<"validate_file_changes", "Quality gate failed",
                               "Skipping PR (correction disabled)">>]
        ELSE IF correction = NoAnalysis
        THEN skip_pr(fix, counted)
                 @@ [result |-> result_,
                     log |-> <<"validate_file_changes", "Quality gate failed",
                               "_attempt_correction", "Correction attempt failed">>]
        ELSE IF validate_file_changes(correction).is_valid
        THEN kept @@ [result |-> [error |-> result_.error, analysis |-> correction],
                      log |-> <<"validate_file_changes", "Quality gate failed",
                                "_attempt_correction", "validate_file_changes",
                                "Correction succeeded">>]
        ELSE skip_pr(fix, counted)
                 @@ [result |-> result_,
                     log |-> <<"validate_file_changes", "Quality gate failed",
                               "_attempt_correction", "validate_file_changes",
                               "Correction failed re-validation">>]

\* What _attempt_correction may return: None, or the result with the corrected
\* Analysis it parsed from the answer.
CorrectedAnalyses ==
    {NoAnalysis} \cup
        { [has_fix |-> TRUE, confidence |-> "high", file_changes |-> fc] :
            fc \in Corrections }

\* Lines 457-503 of runner.py and 356-383 of pipeline.py: compound_result for
\* each analysis and then rebuild_index, or nothing when the knowledge base
\* cannot be written.
knowledge_writes(results_, written) ==
    IF written
    THEN [i \in 1..Len(results_) |-> Effect("knowledge_doc", results_[i].error, <<>>)]
             \o <<Effect("knowledge_index", 0, <<>>)>>
    ELSE <<>>

\* Lines 86-322: the overrides, ingestion, the analyses with their quality
\* signals saved, and the report.
run_begins(arg, s, outcomes, max_issues) ==
    /\ dry_run' = IF arg = "None" THEN s.nightwatch_dry_run ELSE arg = "True"
    /\ settings' = s
    /\ analyses' = results(outcomes)
    /\ report' = [built |-> TRUE, total_errors_found |-> Len(outcomes),
                  errors_analyzed |-> Len(results(outcomes)),
                  pr_validation_failures |-> 0]
    /\ effects' = IF results(outcomes) # <<>>
                  THEN Append(effects, Effect("quality_signals", 0, <<>>))
                  ELSE effects
    /\ run_pc' = "step5"
    /\ UNCHANGED <<wip, candidates, cand_idx, issues_created, best_fix, run_result,
                   pr_validation_failures, run_log>>

\* run(dry_run=arg, max_issues=max_issues), lines 63-322.
Run(arg, s, outcomes, max_issues) ==
    /\ run_pc = "idle"
    /\ run_entry' = [run_entry EXCEPT
                        !.via = "run", !.kwargs_dry_run = arg,
                        !.dry_run = IF arg = "None" THEN s.nightwatch_dry_run
                                    ELSE arg = "True",
                        !.max_issues = max_issues]
    /\ run_begins(arg, s, outcomes, max_issues)
    /\ UNCHANGED nonRunVars

\* Lines 115 and 560: fetch_errors raises, and run with it.
RunRaises(arg, s) ==
    /\ run_pc = "idle"
    /\ run_entry' = [run_entry EXCEPT
                        !.via = "run", !.kwargs_dry_run = arg,
                        !.dry_run = IF arg = "None" THEN s.nightwatch_dry_run
                                    ELSE arg = "True"]
    /\ dry_run' = IF arg = "None" THEN s.nightwatch_dry_run ELSE arg = "True"
    /\ settings' = s
    /\ run_pc' = "raised"
    /\ UNCHANGED <<analyses, report, wip, candidates, cand_idx, issues_created,
                   best_fix, run_result, pr_validation_failures, effects, run_log>>
    /\ UNCHANGED nonRunVars

\* Lines 63-273 and 560: the analyses are made and quality_tracker.save()
\* raises (quality.py lines 59-66 write the signals with write_text, and
\* neither save nor run catches what it raises), and run with it.
QualitySaveRaises(arg, s, outcomes, max_issues) ==
    /\ run_pc = "idle"
    /\ results(outcomes) # <<>>
    /\ run_entry' = [run_entry EXCEPT
                        !.via = "run", !.kwargs_dry_run = arg,
                        !.dry_run = IF arg = "None" THEN s.nightwatch_dry_run
                                    ELSE arg = "True",
                        !.max_issues = max_issues]
    /\ dry_run' = IF arg = "None" THEN s.nightwatch_dry_run ELSE arg = "True"
    /\ settings' = s
    /\ analyses' = results(outcomes)
    /\ run_log' = Append(run_log, "quality_tracker.save raised")
    /\ run_pc' = "raised"
    /\ UNCHANGED <<report, wip, candidates, cand_idx, issues_created, best_fix,
                   run_result, pr_validation_failures, effects>>
    /\ UNCHANGED nonRunVars

\* Lines 325-327.
DryRunReturns ==
    /\ run_pc = "step5"
    /\ dry_run
    /\ run_pc' = "returned"
    /\ UNCHANGED <<run_entry, dry_run, settings, analyses, report, wip, candidates,
                   cand_idx, issues_created, best_fix, run_result,
                   pr_validation_failures, effects, run_log>>
    /\ UNCHANGED nonRunVars

\* Step 6, lines 332-336: the report goes to the chat, unless the client fails.
SendReport(sent) ==
    /\ run_pc = "step5"
    /\ ~dry_run
    /\ effects' = IF sent THEN Append(effects, Effect("chat_report", 0, <<>>))
                  ELSE effects
    /\ run_pc' = "step7"
    /\ UNCHANGED <<run_entry, dry_run, settings, analyses, report, wip, candidates,
                   cand_idx, issues_created, best_fix, run_result,
                   pr_validation_failures, run_log>>
    /\ UNCHANGED nonRunVars

\* Step 7, lines 341-357: open_count is what get_open_nightwatch_issue_count
\* returns.
SelectForIssues(open_count) ==
    /\ run_pc = "step7"
    /\ LET slots == wip_slots(settings.nightwatch_max_open_issues, open_count)
           limited == wip_limit(select_for_issues(analyses, run_entry.max_issues),
                                slots)
       IN  /\ wip' = [open_count |-> open_count, slots |-> slots]
           /\ candidates' = limited.candidates
           /\ run_log' = run_log \o limited.log
    /\ cand_idx' = 0
    /\ run_pc' = "step9"
    /\ UNCHANGED <<run_entry, dry_run, settings, analyses, report, issues_created,
                   best_fix, run_result, pr_validation_failures, effects>>
    /\ UNCHANGED nonRunVars

\* Step 9, lines 368-383: the next candidate gets a comment on its existing
\* issue or a new issue, unless the tracker raises.
CreateOrUpdateIssue(how) ==
    /\ run_pc = "step9"
    /\ cand_idx < Len(candidates)
    /\ LET r == candidates[cand_idx + 1]
       IN  IF how = "raised"
           THEN UNCHANGED <<effects, issues_created>>
           ELSE /\ effects' = Append(effects,
                                     Effect(IF how = "created" THEN "issue"
                                            ELSE "comment", r.error, <<>>))
                /\ issues_created' = Append(issues_created,
                                            [error |-> r.error, action |-> how,
                                             issue_number |-> 100 + r.error])
    /\ cand_idx' = cand_idx + 1
    /\ UNCHANGED <<run_pc, run_entry, dry_run, settings, analyses, report, wip,
                   candidates, best_fix, run_result, pr_validation_failures,
                   run_log>>
    /\ UNCHANGED nonRunVars

\* Step 10, lines 392-394.
BestFixCandidate ==
    /\ run_pc = "step9"
    /\ cand_idx = Len(candidates)
    /\ best_fix' = best_fix_candidate(analyses, issues_created)
    /\ run_result' = best_fix'.result
    /\ run_pc' = IF best_fix' = NoFix THEN "pr" ELSE "gate"
    /\ UNCHANGED <<run_entry, dry_run, settings, analyses, report, wip, candidates,
                   cand_idx, issues_created, pr_validation_failures, effects,
                   run_log>>
    /\ UNCHANGED nonRunVars

\* Step 10, lines 393-429.
QualityGate(correction) ==
    /\ run_pc = "gate"
    /\ LET gate == quality_gate(best_fix, pr_validation_failures, settings,
                                correction)
       IN  /\ best_fix' = gate.best_fix
           /\ run_result' = gate.result
           /\ pr_validation_failures' = gate.pr_validation_failures
           /\ run_log' = run_log \o gate.log
    /\ run_pc' = "pr"
    /\ UNCHANGED <<run_entry, dry_run, settings, analyses, report, wip, candidates,
                   cand_idx, issues_created, effects>>
    /\ UNCHANGED nonRunVars

\* Step 10, lines 431-440: result, issue_number = best_fix, and the draft PR is
\* made from that result unless the tracker raises.
CreatePullRequest(created) ==
    /\ run_pc = "pr"
    /\ IF best_fix # NoFix
       THEN /\ run_result' = best_fix.result
            /\ effects' = IF created
                          THEN Append(effects,
                                      Effect("pull_request", best_fix.result.error,
                                             best_fix.result.analysis.file_changes))
                          ELSE effects
       ELSE UNCHANGED <<run_result, effects>>
    /\ report' = [report EXCEPT !.pr_validation_failures = pr_validation_failures]
    /\ run_pc' = "step11"
    /\ UNCHANGED <<run_entry, dry_run, settings, analyses, wip, candidates, cand_idx,
                   issues_created, best_fix, pr_validation_failures, run_log>>
    /\ UNCHANGED nonRunVars

\* The draft PR of this run, if it made one.
pr_result == { i \in DOMAIN effects : effects[i].kind = "pull_request" }

\* Steps 11 to 14, lines 445-557: the follow-up goes to the chat if the report
\* did, the knowledge base is written unless a write raises (lines 455-503),
\* the run history is saved unless save_run raises (lines 507-533), and run
\* returns.
Finish(written, saved) ==
    /\ run_pc = "step11"
    /\ run_log' =
          run_log
            \o (IF ~dry_run /\ settings.nightwatch_compound_enabled /\ ~written
                THEN <<"compound_result raised", "Knowledge compounding failed">>
                ELSE <<>>)
            \o (IF saved THEN <<>>
                ELSE <<"save_run raised", "Failed to save run history">>)
    /\ effects' =
          effects
            \o (IF (issues_created # <<>> \/ pr_result # {})
                    /\ \E i \in DOMAIN effects : effects[i].kind = "chat_report"
                THEN <<Effect("chat_followup", 0, <<>>)>>
                ELSE <<>>)
            \o (IF ~dry_run /\ settings.nightwatch_compound_enabled
                THEN knowledge_writes(analyses, written)
                ELSE <<>>)
            \o (IF saved THEN <<Effect("run_history", 0, <<>>)>> ELSE <<>>)
    /\ run_pc' = "returned"
    /\ UNCHANGED <<run_entry, dry_run, settings, analyses, report, wip, candidates,
                   cand_idx, issues_created, best_fix, run_result,
                   pr_validation_failures>>
    /\ UNCHANGED nonRunVars

\* Pipeline(config).execute(**run_kwargs), pipeline.py lines 80-100.
PipelineExecute(config_dry_run, enable_fallback, arg, client, s) ==
    /\ run_pc = "idle"
    /\ run_entry' = [run_entry EXCEPT
                        !.via = "pipeline", !.dry_run = config_dry_run,
                        !.kwargs_dry_run = arg, !.slack_client = client,
                        !.enable_fallback = enable_fallback]
    /\ settings' = s
    /\ run_pc' = "ingestion"
    /\ UNCHANGED <<dry_run, analyses, report, wip, candidates, cand_idx,
                   issues_created, best_fix, run_result, pr_validation_failures,
                   effects, run_log>>
    /\ UNCHANGED nonRunVars

\* pipeline.py, lines 100-122: ingestion to synthesis pass, and leave the number
\* of errors found and the analyses in the state.
CriticalPhasesPass(outcomes) ==
    /\ run_pc = "ingestion"
    /\ analyses' = results(outcomes)
    /\ report' = [report EXCEPT !.total_errors_found = Len(outcomes)]
    /\ run_pc' = "reporting"
    /\ UNCHANGED <<run_entry, dry_run, settings, wip, candidates, cand_idx,
                   issues_created, best_fix, run_result, pr_validation_failures,
                   effects, run_log>>
    /\ UNCHANGED nonRunVars

\* pipeline.py, lines 115-122 and 154: a critical phase fails.
CriticalPhaseFails ==
    /\ run_pc = "ingestion"
    /\ run_pc' = "except"
    /\ UNCHANGED <<run_entry, dry_run, settings, analyses, report, wip, candidates,
                   cand_idx, issues_created, best_fix, run_result,
                   pr_validation_failures, effects, run_log>>
    /\ UNCHANGED nonRunVars

\* pipeline.py, lines 470-473.
PipelineRaises ==
    /\ run_pc = "except"
    /\ ~run_entry.enable_fallback
    /\ run_pc' = "raised"
    /\ UNCHANGED <<run_entry, dry_run, settings, analyses, report, wip, candidates,
                   cand_idx, issues_created, best_fix, run_result,
                   pr_validation_failures, effects, run_log>>
    /\ UNCHANGED nonRunVars

\* pipeline.py, lines 475-482: run(**v1_kwargs), with the caller's dry_run if
\* the caller gave one.
PipelineFallback(outcomes, max_issues) ==
    /\ run_pc = "except"
    /\ run_entry.enable_fallback
    /\ run_entry' = [run_entry EXCEPT !.max_issues = max_issues]
    /\ run_begins(run_entry.kwargs_dry_run, settings, outcomes, max_issues)
    /\ UNCHANGED nonRunVars

\* agents/reporter.py, lines 14-32, in the REPORTING phase and again in the
\* ACTION phase: report and slack_client are always keys of the agent state, so
\* send_run_report is called on the caller's client; None and SlackClient have
\* no such method, and the AttributeError ends in execute_with_timeout.
ReporterExecute ==
    /\ run_pc \in {"reporting", "action"}
    /\ effects' = IF run_entry.slack_client = "Other"
                  THEN Append(effects, Effect("chat_report", 0, <<>>))
                  ELSE effects
    /\ run_pc' = IF run_pc = "reporting" THEN "action" ELSE "learning"
    /\ UNCHANGED <<run_entry, dry_run, settings, analyses, report, wip, candidates,
                   cand_idx, issues_created, best_fix, run_result,
                   pr_validation_failures, run_log>>
    /\ UNCHANGED nonRunVars

\* pipeline.py, lines 336-393 and 124-152: the learning phase, and the report.
PipelineLearning(written) ==
    /\ run_pc = "learning"
    /\ effects' = IF run_entry.dry_run \/ ~settings.nightwatch_compound_enabled
                  THEN effects
                  ELSE effects \o knowledge_writes(analyses, written)
    /\ report' = [report EXCEPT !.built = TRUE, !.errors_analyzed = Len(analyses)]
    /\ run_pc' = "returned"
    /\ UNCHANGED <<run_entry, dry_run, settings, analyses, wip, candidates, cand_idx,
                   issues_created, best_fix, run_result, pr_validation_failures,
                   run_log>>
    /\ UNCHANGED nonRunVars

\* An invocation on its own.
RunInit == BusVarsInit /\ RestInit

RunNext ==
    \/ \E arg \in DryRunArgs, s \in Settings, outcomes \in Outcomes,
          max_issues \in 1..MaxIssues : Run(arg, s, outcomes, max_issues)
    \/ \E arg \in DryRunArgs, s \in Settings : RunRaises(arg, s)
    \/ \E arg \in DryRunArgs, s \in Settings, outcomes \in Outcomes,
          max_issues \in 1..MaxIssues : QualitySaveRaises(arg, s, outcomes, max_issues)
    \/ DryRunReturns
    \/ \E sent \in BOOLEAN : SendReport(sent)
    \/ \E open_count \in 0..(MaxOpenIssues + 1) : SelectForIssues(open_count)
    \/ \E how \in {"created", "commented", "raised"} : CreateOrUpdateIssue(how)
    \/ BestFixCandidate
    \/ \E correction \in CorrectedAnalyses : QualityGate(correction)
    \/ \E created \in BOOLEAN : CreatePullRequest(created)
    \/ \E written \in BOOLEAN, saved \in BOOLEAN : Finish(written, saved)
    \/ \E config_dry_run \in BOOLEAN, enable_fallback \in BOOLEAN,
          arg \in DryRunArgs, client \in SlackClients, s \in PipelineSettings :
            PipelineExecute(config_dry_run, enable_fallback, arg, client, s)
    \/ \E outcomes \in Outcomes : CriticalPhasesPass(outcomes)
    \/ CriticalPhaseFails
    \/ PipelineRaises
    \/ \E outcomes \in Outcomes, max_issues \in 1..MaxIssues :
            PipelineFallback(outcomes, max_issues)
    \/ ReporterExecute
    \/ \E written \in BOOLEAN : PipelineLearning(written)

SpecRun == RunInit /\ [][RunNext]_vars

----------------------------------------------------------------------------
(* Properties of an invocation, checked under SpecRun *)
----------------------------------------------------------------------------

\* The draft PRs the run has made.
PullRequests == { effects[i] : i \in pr_result }

\* C16: with the quality gate enabled, the draft PR is made from the Analysis the
\* gate accepted, the original one or the corrected one that passed the fresh
\* validation, and carries the file_changes of that Analysis, which pass the gate.
C16_PullRequestFromAcceptedAnalysis ==
    (run_entry.via # Nil /\ settings.nightwatch_quality_gate_enabled) =>
        \A pr \in PullRequests :
            /\ validate_file_changes([file_changes |-> pr.file_changes]).is_valid
            /\ (\E i \in DOMAIN run_log : run_log[i] = "Correction succeeded")
                => pr.file_changes \in Corrections

\* The run logged the line, or called the helper.
Logged(line) == \E i \in DOMAIN run_log : run_log[i] = line

\* The effects of the kinds given, in the order they were made.
EffectsOf(kinds) == SelectSeq(effects, LAMBDA e : e.kind \in kinds)

\* C17: when the quality gate fails and no correction succeeds (correction
\* disabled, the attempt returning nothing, or the re-validation failing), no PR
\* is made, pr_validation_failures goes from 0 to exactly 1 and reaches the
\* report, _attempt_correction is called at most once, and every issue of the
\* run, that of the rejected fix among them, has been created or commented on.
C17_GateFailureSkipsPR ==
    /\ Cardinality({ i \in DOMAIN run_log : run_log[i] = "_attempt_correction" }) <= 1
    /\ (Logged("Quality gate failed") /\ ~Logged("Correction succeeded")) =>
        /\ PullRequests = {}
        /\ best_fix = NoFix
        /\ pr_validation_failures = 1
        /\ run_pc \in {"step11", "returned"} => report.pr_validation_failures = 1
        /\ cand_idx = Len(candidates)
        /\ Len(EffectsOf({"issue", "comment"})) = Len(issues_created)
        /\ \A i \in DOMAIN issues_created :
              /\ EffectsOf({"issue", "comment"})[i].error = issues_created[i].error
              /\ (EffectsOf({"issue", "comment"})[i].kind = "issue")
                    = (issues_created[i].action = "created")
        /\ \E i \in DOMAIN effects :
              effects[i].kind = "issue" /\ effects[i].error = run_result.error

\* The run has returned after a correction that failed its re-validation: the
\* issue of the rejected fix is there, and no PR.
C17_Witness ==
    /\ run_pc = "returned"
    /\ run_entry.via = "run"
    /\ Logged("Correction failed re-validation")
    /\ report.pr_validation_failures = 1
    /\ \E i \in DOMAIN effects : effects[i].kind = "issue"
    /\ PullRequests = {}

\* The writes that leave the process: to the tracker, to the chat, to the
\* knowledge base.
ExternalKinds ==
    {"issue", "comment", "pull_request", "chat_report", "chat_followup",
     "knowledge_doc", "knowledge_index"}

\* C18: in a dry run, whether run() was called with dry_run or a Pipeline was
\* configured with it, no issue or PR is created, nothing is sent to the chat and
\* no knowledge document or index is written.
C18_DryRunNoSideEffects ==
    (run_entry.via # Nil /\ run_entry.dry_run) => EffectsOf(ExternalKinds) = <<>>

\* The run is past Step 7: in Steps 9 to 11, or returned from Step 13.
PastWipCheck ==
    \/ run_pc \in {"step9", "gate", "pr", "step11"}
    \/ /\ run_pc = "returned"
       /\ EffectsOf({"run_history"}) # <<>> \/ Logged("Failed to save run history")

C19_WitnessReduced ==
    /\ run_pc = "returned"
    /\ PastWipCheck
    /\ wip.slots = 1
    /\ Len(select_for_issues(analyses, run_entry.max_issues)) = 2
    /\ Len(EffectsOf({"issue", "comment"})) = 1

\* Ingestion is over: the number of errors it found is known.
Ingested ==
    run_pc \in {"step5", "step7", "step9", "gate", "pr", "step11", "reporting",
                "action", "learning", "returned"}

\* C20: when ingestion found no error, the run ends with errors_analyzed = 0,
\* nothing is sent to the chat and no issue, comment or PR is made.
C20_ZeroErrorsNoSideEffects ==
    (Ingested /\ report.total_errors_found = 0) =>
        /\ analyses = <<>>
        /\ run_pc = "returned" => report.built /\ report.errors_analyzed = 0
        /\ EffectsOf({"chat_report", "chat_followup", "issue", "comment",
                      "pull_request"}) = <<>>

----------------------------------------------------------------------------
(* The analysis loop: nightwatch/analyzer.py, analyze_error and _single_pass *)

\* The largest NIGHTWATCH_MAX_ITERATIONS a caller sets (config.py line 28 puts
\* no validator on the field, so 0 is a setting too).
MaxCeiling == 6

\* The largest NIGHTWATCH_MAX_PASSES a caller sets.
MaxPasses == 2

\* The tokens of one LLM call: input_tokens + output_tokens, 1..MaxCallTokens.
MaxCallTokens == 2

\* A per-error token ceiling small enough for the loop to run into.
SmallTokenBudget == 2

\* config.py line 50: nightwatch_token_budget_per_error: int = 30000
DefaultTokenBudget == 30000

min(a, b) == IF a < b THEN a ELSE b

\* One error class of each group of analyzer.py lines 148-154, and one of none.
ErrorClasses == {"NoMethodError", "NotAuthorized", "RuntimeError"}

\* analyzer.py lines 157-168. The patterns are matched on the lowered class name.
_calculate_max_iterations(error_class, settings_max) ==
    CASE error_class \in {"NoMethodError", "NameError", "ArgumentError", "TypeError",
                          "KeyError", "AttributeError"} -> min(7, settings_max)
      [] error_class \in {"NotAuthorized", "Forbidden", "AuthenticationError",
                          "Unauthorized"} -> min(5, settings_max)
      [] error_class \in {"ActiveRecord::RecordNotFound", "PG::Error",
                          "StatementInvalid", "Deadlock", "Mysql2::Error"} ->
            min(10, settings_max)
      [] error_class \in {"SystemStackError", "Timeout", "ConnectionError",
                          "NoMemoryError", "Segfault"} -> min(15, settings_max)
      [] OTHER -> min(10, settings_max)

AnalyzerSettings ==
    [nightwatch_max_iterations : 0..MaxCeiling,
     nightwatch_token_budget_per_error : {SmallTokenBudget, DefaultTokenBudget},
     nightwatch_multi_pass_enabled : BOOLEAN,
     nightwatch_max_passes : 1..MaxPasses]

\* The final answers of the model: text that is no JSON, or a JSON object with
\* its "confidence" and "has_fix" ("certain" is no member of Confidence).
Answers ==
    {[json |-> FALSE, confidence |-> "low", has_fix |-> FALSE],
     [json |-> TRUE, confidence |-> "low", has_fix |-> FALSE],
     [json |-> TRUE, confidence |-> "medium", has_fix |-> TRUE],
     [json |-> TRUE, confidence |-> "high", has_fix |-> TRUE],
     [json |-> TRUE, confidence |-> "certain", has_fix |-> TRUE]}

\* _call_claude_with_retry raised: there is no response.
NoAnswer == [json |-> FALSE, confidence |-> Nil, has_fix |-> FALSE]

\* models.py lines 14-17: Confidence
ConfidenceValues == {"low", "medium", "high"}

\* analyzer.py lines 565-618: _parse_analysis of an answer Analysis accepts.
_parse_analysis(answer) ==
    IF answer.json
    THEN [confidence |-> answer.confidence, has_fix |-> answer.has_fix,
          reasoning |-> "reasoning of the answer",
          root_cause |-> "root cause of the answer"]
    ELSE [confidence |-> "low", has_fix |-> FALSE, reasoning |-> "text of the answer",
          root_cause |-> "See reasoning"]

\* analyzer.py lines 339-348: the Analysis of a pass that left its loop. The
\* source's reasoning has a dash where this string has a hyphen.
IncompleteAnalysis ==
    [confidence |-> "low", has_fix |-> FALSE,
     reasoning |-> "Analysis incomplete - hit iteration limit",
     root_cause |-> "Unknown - analysis did not complete"]

\* models.py lines 168-181: ErrorAnalysisResult as _single_pass builds it;
\* pass_count defaults to 1.
ErrorAnalysisResult(analysis, p) ==
    [analysis |-> analysis, iterations |-> p.iteration, tokens_used |-> p.total_tokens,
     api_calls |-> p.api_calls, pass_count |-> 1]

\* analyzer.py lines 384-387
_confidence_rank(confidence) ==
    CASE confidence = "low" -> 0
      [] confidence = "medium" -> 1
      [] confidence = "high" -> 2
      [] OTHER -> 0

\* analyzer.py lines 268-278: the locals of a pass before its loop.
single_pass_begins(s, error_class) ==
    [iteration |-> 0,
     max_iterations |-> _calculate_max_iterations(error_class,
                                                  s.nightwatch_max_iterations),
     total_tokens |-> 0, api_calls |-> 0]

\* A multi-pass condition that does not look at pass 1's confidence.
second_pass_whatever_confidence(s, r) ==
    s.nightwatch_multi_pass_enabled /\ s.nightwatch_max_passes > 1

\* analyzer.py lines 93-97: the multi-pass condition.
second_pass_wanted(s, r) ==
    /\ s.nightwatch_multi_pass_enabled
    /\ r.analysis.confidence = "low"
    /\ s.nightwatch_max_passes > 1

\* Lines 121-131 with pass 1's analysis kept on a tie as well.
accumulate_keeping_ties(r, p1) ==
    [analysis |-> IF _confidence_rank(r.analysis.confidence)
                        <= _confidence_rank(p1.analysis.confidence)
                  THEN p1.analysis ELSE r.analysis,
     iterations |-> r.iterations + p1.iterations,
     tokens_used |-> r.tokens_used + p1.tokens_used,
     api_calls |-> r.api_calls + p1.api_calls,
     pass_count |-> 2]

\* analyzer.py lines 121-131: pass 2's result with the totals of both passes,
\* and pass 1's analysis unless pass 2's confidence ranks as high.
accumulate(r, p1) ==
    [analysis |-> IF _confidence_rank(r.analysis.confidence)
                        < _confidence_rank(p1.analysis.confidence)
                  THEN p1.analysis ELSE r.analysis,
     iterations |-> r.iterations + p1.iterations,
     tokens_used |-> r.tokens_used + p1.tokens_used,
     api_calls |-> r.api_calls + p1.api_calls,
     pass_count |-> 2]

\* _single_pass returns r; cause tells how it left its loop.
single_pass_returns(r, cause) ==
    /\ an_pc' = "pass_done"
    /\ an_out' = r
    /\ an_hist' = [an_hist EXCEPT !.causes = Append(@, cause),
                                  !.passes = Append(@, r)]

\* analyze_error, lines 81-90: pass 1 begins.
AnalyzeError(s, error_class) ==
    /\ an_pc = "idle"
    /\ an_settings' = s
    /\ an_error' = error_class
    /\ an_pass' = single_pass_begins(s, error_class)
    /\ an_pc' = "loop"
    /\ UNCHANGED <<an_out, pass1_result, an_result, an_hist, nonAnVars>>

\* _single_pass, line 280 false: the loop ends at the iteration limit and
\* lines 337-352 return.
LoopExit ==
    /\ an_pc = "loop"
    /\ ~(an_pass.iteration < an_pass.max_iterations)
    /\ single_pass_returns(ErrorAnalysisResult(IncompleteAnalysis, an_pass), "limit")
    /\ UNCHANGED <<an_settings, an_error, an_pass, pass1_result, an_result, nonAnVars>>

\* _single_pass, lines 280-296: an iteration begins, the token total is over
\* the budget, the loop breaks and lines 337-352 return.
BudgetBreak ==
    /\ an_pc = "loop"
    /\ an_pass.iteration < an_pass.max_iterations
    /\ an_pass.total_tokens > an_settings.nightwatch_token_budget_per_error
    /\ LET p == [an_pass EXCEPT !.iteration = @ + 1]
       IN /\ an_pass' = p
          /\ single_pass_returns(ErrorAnalysisResult(IncompleteAnalysis, p), "budget")
    /\ UNCHANGED <<an_settings, an_error, pass1_result, an_result, nonAnVars>>

\* The locals after an LLM call of lines 298-305 that returned.
llm_round(p, tokens) ==
    [p EXCEPT !.iteration = @ + 1, !.total_tokens = @ + tokens, !.api_calls = @ + 1]

\* The loop's guard up to the LLM call of line 298.
llm_called ==
    /\ an_pc = "loop"
    /\ an_pass.iteration < an_pass.max_iterations
    /\ ~(an_pass.total_tokens > an_settings.nightwatch_token_budget_per_error)

\* _single_pass, lines 280-319: an iteration whose response stops for tool use.
LlmToolUse(tokens) ==
    /\ llm_called
    /\ an_pass' = llm_round(an_pass, tokens)
    /\ an_hist' = [an_hist EXCEPT !.rounds = @ + 1,
                                  !.stop_reasons = @ \cup {"tool_use"}]
    /\ UNCHANGED <<an_pc, an_settings, an_error, an_out, pass1_result, an_result,
                   nonAnVars>>

\* _single_pass, lines 280-305 and 320-334: an iteration whose response is the
\* final answer, parsed and returned.
LlmEndTurn(tokens, answer) ==
    /\ llm_called
    /\ answer.confidence \in ConfidenceValues
    /\ LET p == llm_round(an_pass, tokens)
       IN /\ an_pass' = p
          /\ an_pc' = "pass_done"
          /\ an_out' = ErrorAnalysisResult(_parse_analysis(answer), p)
          /\ an_hist' = [an_hist EXCEPT
                            !.rounds = @ + 1,
                            !.stop_reasons = @ \cup {"end_turn"},
                            !.causes = Append(@, "parsed"),
                            !.passes = Append(@, ErrorAnalysisResult(
                                                    _parse_analysis(answer), p))]
    /\ UNCHANGED <<an_settings, an_error, pass1_result, an_result, nonAnVars>>

\* _single_pass, lines 298 and 322: _call_claude_with_retry gives up (lines 463,
\* 474), or Analysis rejects the confidence of the final answer; the exception
\* leaves analyze_error.
AnalyzeRaises(answer) ==
    /\ llm_called
    /\ answer.confidence \notin ConfidenceValues
    /\ an_pc' = "raised"
    /\ an_hist' = [an_hist EXCEPT !.rounds = @ + 1]
    /\ UNCHANGED <<an_settings, an_error, an_pass, an_out, pass1_result, an_result,
                   nonAnVars>>

\* analyze_error, lines 93-118: pass 1 has returned and pass 2 begins.
SecondPass ==
    /\ an_pc = "pass_done"
    /\ Len(an_hist.passes) = 1
    /\ second_pass_wanted(an_settings, an_out)
    /\ pass1_result' = an_out
    /\ an_pass' = single_pass_begins(an_settings, an_error)
    /\ an_pc' = "loop"
    /\ UNCHANGED <<an_settings, an_error, an_out, an_result, an_hist, nonAnVars>>

\* analyze_error, lines 93-97 false and 141: the one pass's result is returned.
ReturnPass1 ==
    /\ an_pc = "pass_done"
    /\ Len(an_hist.passes) = 1
    /\ ~second_pass_wanted(an_settings, an_out)
    /\ an_result' = an_out
    /\ an_pc' = "returned"
    /\ UNCHANGED <<an_settings, an_error, an_pass, an_out, pass1_result, an_hist,
                   nonAnVars>>

\* analyze_error, lines 120-141: pass 2 has returned; the totals are
\* accumulated and the result is returned.
ReturnPass2 ==
    /\ an_pc = "pass_done"
    /\ Len(an_hist.passes) = 2
    /\ an_result' = accumulate(an_out, pass1_result)
    /\ an_pc' = "returned"
    /\ UNCHANGED <<an_settings, an_error, an_pass, an_out, pass1_result, an_hist,
                   nonAnVars>>

AnalyzeInit == BusVarsInit /\ RestInit

AnalyzeNext ==
    \/ \E s \in AnalyzerSettings, error_class \in ErrorClasses :
            AnalyzeError(s, error_class)
    \/ LoopExit
    \/ BudgetBreak
    \/ \E tokens \in 1..MaxCallTokens : LlmToolUse(tokens)
    \/ \E tokens \in 1..MaxCallTokens, answer \in Answers : LlmEndTurn(tokens, answer)
    \/ \E answer \in Answers \cup {NoAnswer} : AnalyzeRaises(answer)
    \/ SecondPass
    \/ ReturnPass1
    \/ ReturnPass2

SpecAnalyze == AnalyzeInit /\ [][AnalyzeNext]_vars

----------------------------------------------------------------------------
(* Claims about the analysis loop *)

\* analyze_error has returned a result.
AnalysisReturned == an_pc = "returned"

\* C21: if every LLM response of an analysis is a tool-use step, the analysis
\* makes exactly max_iterations LLM rounds and returns the result of the
\* iteration limit: low confidence, no fix, the iteration-limit reasoning and
\* pass_count = 1.
C21_AllToolUseOnePassAtLimit ==
    AnalysisReturned /\ an_hist.stop_reasons \subseteq {"tool_use"} =>
        /\ an_hist.rounds = an_pass.max_iterations
        /\ an_result.analysis.confidence = "low"
        /\ ~an_result.analysis.has_fix
        /\ an_result.analysis.reasoning = IncompleteAnalysis.reasoning
        /\ an_result.pass_count = 1

\* C22: a pass that finds the running token total over the per-error ceiling
\* ends without a further LLM call, and its low-confidence, no-fix result tells
\* budget exhaustion apart from the iteration limit.
C22_BudgetExhaustionIndicated ==
    \A i \in 1..Len(an_hist.causes) :
        an_hist.causes[i] = "budget" =>
            /\ an_hist.passes[i].api_calls = an_hist.passes[i].iterations - 1
            /\ an_hist.passes[i].analysis.confidence = "low"
            /\ ~an_hist.passes[i].analysis.has_fix
            /\ an_hist.passes[i].analysis /= IncompleteAnalysis

\* C23: a second pass runs exactly when multi-pass is enabled, pass 1's
\* confidence is low and max_passes > 1; the result returned after two passes
\* has the sums of both passes' tokens_used, api_calls and iterations and
\* pass_count = 2; the result returned after one pass has pass_count = 1.
C23_SecondPassIffLowAndEnabled ==
    AnalysisReturned =>
        /\ Len(an_hist.passes) \in {1, 2}
        /\ Len(an_hist.passes) = 2 <=>
              /\ an_settings.nightwatch_multi_pass_enabled
              /\ an_hist.passes[1].analysis.confidence = "low"
              /\ an_settings.nightwatch_max_passes > 1
        /\ Len(an_hist.passes) = 2 =>
              /\ an_result.tokens_used
                    = an_hist.passes[1].tokens_used + an_hist.passes[2].tokens_used
              /\ an_result.api_calls
                    = an_hist.passes[1].api_calls + an_hist.passes[2].api_calls
              /\ an_result.iterations
                    = an_hist.passes[1].iterations + an_hist.passes[2].iterations
              /\ an_result.pass_count = 2
        /\ Len(an_hist.passes) = 1 =>
              /\ an_result.pass_count = 1
              /\ an_result = an_hist.passes[1]

\* Two passes that both called the LLM have returned, and the result is in.
C23_Witness ==
    /\ AnalysisReturned
    /\ Len(an_hist.passes) = 2
    /\ an_hist.passes[1].api_calls > 0
    /\ an_hist.passes[2].api_calls > 0
    /\ an_result.analysis.confidence = "high"

\* C24: every result the analysis returns, for every setting of the
\* iteration ceiling, the token ceiling and max_passes, has iterations >= 1,
\* tokens_used >= 0, pass_count in {1, 2} and a confidence of low, medium or
\* high.
C24_ResultWellFormed ==
    AnalysisReturned =>
        /\ an_result.iterations >= 1
        /\ an_result.tokens_used >= 0
        /\ an_result.pass_count \in {1, 2}
        /\ an_result.analysis.confidence \in ConfidenceValues

\* The ranks the specification gives: low = 0, medium = 1, high = 2.
C33_Rank(confidence) ==
    IF confidence = "high" THEN 2 ELSE IF confidence = "medium" THEN 1 ELSE 0

----------------------------------------------------------------------------
(* The knowledge store: nightwatch/knowledge.py                            *)
(* A text is a sequence of tokens, each a word or a run of punctuation.    *)
(* Scores are counted in tenths.                                           *)

\* The documents earlier runs have left in the store, one a day; the documents
\* compound_result is called for; the last day midnight passes on while the
\* store is in use.
MaxPrior == 3
MaxCompounds == 2
MaxDays == 2

\* The error groups the store is used for. The second differs from the first
\* in its class only, and in punctuation only; the third has a message that
\* the YAML dumper quotes and that contains three dashes.
KsErrors ==
    {[error_class |-> <<"Net", "::", "Timeout">>,
      transaction |-> <<"Controller", "/", "orders">>, message |-> "timed out"],
     [error_class |-> <<"Net", ".", "Timeout">>,
      transaction |-> <<"Controller", "/", "orders">>,
      message |-> "timed out --- retried"],
     [error_class |-> <<"KeyError">>,
      transaction |-> <<"rake", "/", "sync">>, message |-> "key: --- not found"]}

\* str.lower() of a token.
lower(tok) ==
    CASE tok = "Net" -> "net"
      [] tok = "Timeout" -> "timeout"
      [] tok = "Controller" -> "controller"
      [] tok = "KeyError" -> "keyerror"
      [] OTHER -> tok

lower_text(text) == [i \in 1..Len(text) |-> lower(text[i])]

\* The tokens [^a-z0-9]+ matches.
is_alnum(tok) ==
    tok \in {"net", "timeout", "controller", "keyerror", "orders", "rake", "sync"}

RECURSIVE hyphenate(_)
\* re.sub(r"[^a-z0-9]+", "-", text): every run of other tokens becomes one hyphen.
hyphenate(text) ==
    IF text = <<>> THEN <<>>
    ELSE IF is_alnum(Head(text)) THEN <<Head(text)>> \o hyphenate(Tail(text))
    ELSE IF Len(text) > 1 /\ ~is_alnum(text[2]) THEN hyphenate(Tail(text))
    ELSE <<"-">> \o hyphenate(Tail(text))

\* str.strip("-")
strip_hyphens(text) ==
    LET a == IF text /= <<>> /\ Head(text) = "-" THEN Tail(text) ELSE text
    IN IF a /= <<>> /\ a[Len(a)] = "-" THEN SubSeq(a, 1, Len(a) - 1) ELSE a

\* knowledge.py lines 423-426. The source cuts the slug at 60 characters; the
\* slugs of KsErrors are shorter.
_slugify(text) ==
    LET slug == strip_hyphens(hyphenate(lower_text(text)))
    IN SubSeq(slug, 1, min(60, Len(slug)))

RECURSIVE re_split(_, _, _)
\* re.split on runs of the separators seps; cur is the piece being read.
re_split(text, seps, cur) ==
    IF text = <<>> THEN {cur}
    ELSE IF Head(text) \in seps THEN {cur} \cup re_split(Tail(text), seps, <<>>)
    ELSE re_split(Tail(text), seps, Append(cur, Head(text)))

\* knowledge.py lines 380-394
_extract_tags(error) ==
    LET parts == re_split(error.error_class, {"::", ":", ".", "/"}, <<>>)
                    \cup re_split(error.transaction, {"/"}, <<>>)
    IN {lower_text(part) : part \in parts}
            \ {<<"controller">>, <<"action">>, <<"othertransaction">>, <<"rake">>,
               <<"n/a">>, <<>>}

\* The name of the document compound_result writes, lines 106-109:
\* "<date>_<slug>.md" as the pair of its date and its slug.
doc_name(error, day) ==
    <<day, _slugify(error.error_class \o <<"_">> \o error.transaction)>>

\* The keys of a document's frontmatter in the order lines 113-128 give them.
FrontmatterKeys ==
    <<"error_class", "transaction", "message", "root_cause", "fix_confidence",
      "has_fix", "issue_number", "pr_number", "tags", "first_detected", "run_id">>

\* knowledge.py lines 113-128: the frontmatter of a result's document. None is 0.
frontmatter_of(error, analysis, day, instant) ==
    [error_class |-> error.error_class, transaction |-> error.transaction,
     message |-> error.message, root_cause |-> analysis.root_cause,
     fix_confidence |-> analysis.confidence, has_fix |-> analysis.has_fix,
     issue_number |-> 0, pr_number |-> 0, tags |-> _extract_tags(error),
     first_detected |-> day, run_id |-> instant]

\* knowledge.py lines 417-420 followed by the body: the text of a file.
_render_frontmatter(keys, vals, body) ==
    [complete |-> TRUE, keys |-> keys, vals |-> vals, body |-> body]

\* Where str.find("---", 3) stops in a scalar: "none" when the scalar has no
\* three dashes, "plain" when it has and is dumped as it is, "quoted" when it
\* has and is dumped between quotes.
dashes(scalar) ==
    CASE scalar = "timed out --- retried" -> "plain"
      [] scalar = "key: --- not found" -> "quoted"
      [] OTHER -> "none"

\* The scalar up to its three dashes, stripped.
before_dashes(scalar) ==
    IF scalar = "timed out --- retried" THEN "timed out" ELSE scalar

RECURSIVE keys_until(_, _)
\* The keys of a frontmatter up to and with the key k.
keys_until(keys, k) ==
    IF keys = <<>> THEN <<>>
    ELSE IF Head(keys) = k THEN <<k>>
    ELSE <<Head(keys)>> \o keys_until(Tail(keys), k)

Range(f) == {f[i] : i \in DOMAIN f}

\* knowledge.py lines 397-414: the frontmatter (its keys in order and its
\* values) and the body of a file's text. The closing marker is the first
\* "---" after the opening one, which a message can hold: then the YAML ends
\* in the message, and is no YAML when the message is quoted.
_parse_frontmatter(content) ==
    LET cut == IF "message" \in Range(content.keys)
               THEN dashes(content.vals.message) ELSE "none"
    IN CASE ~content.complete -> [keys |-> <<>>, vals |-> NoVals, body |-> ""]
         [] content.complete /\ cut = "none" ->
                [keys |-> content.keys, vals |-> content.vals, body |-> content.body]
         [] content.complete /\ cut = "plain" ->
                [keys |-> keys_until(content.keys, "message"),
                 vals |-> [content.vals EXCEPT !.message = before_dashes(@)],
                 body |-> "rest of the frontmatter and the body"]
         [] content.complete /\ cut = "quoted" ->
                [keys |-> <<>>, vals |-> NoVals, body |-> "the whole text"]

\* dict.get(key, default) on a parsed frontmatter.
fm_get(fm, key, default) == IF key \in Range(fm.keys) THEN fm.vals[key] ELSE default

\* The rank of a token in the order of characters: "-" sorts before letters.
token_rank(tok) ==
    CASE tok = "-" -> 0
      [] tok = "controller" -> 1
      [] tok = "keyerror" -> 2
      [] tok = "net" -> 3
      [] tok = "orders" -> 4
      [] tok = "rake" -> 5
      [] tok = "sync" -> 6
      [] tok = "timeout" -> 7
      [] OTHER -> 8

RECURSIVE slug_less(_, _)
\* The order of "<slug>.md" names: "-" sorts before ".", so of two slugs the
\* one that goes on comes first.
slug_less(a, b) ==
    IF a = <<>> THEN FALSE
    ELSE IF b = <<>> THEN TRUE
    ELSE IF Head(a) = Head(b) THEN slug_less(Tail(a), Tail(b))
    ELSE token_rank(Head(a)) < token_rank(Head(b))

\* The order of document names: by date, then by slug.
name_less(a, b) == a[1] < b[1] \/ (a[1] = b[1] /\ slug_less(a[2], b[2]))

RECURSIVE sorted(_)
\* sorted() of a set of document names.
sorted(names) ==
    IF names = {} THEN <<>>
    ELSE LET first == CHOOSE a \in names : \A b \in names \ {a} : name_less(a, b)
         IN <<first>> \o sorted(names \ {first})

\* knowledge.py lines 359-376
_match_score(error, solution, error_tags) ==
    LET score == (IF error.error_class = solution.error_class THEN 5 ELSE 0)
                    + (IF error.transaction = solution.transaction THEN 3 ELSE 0)
                    + Cardinality(error_tags \cap solution.tags)
    IN min(score, 10)

RECURSIVE scan(_, _)
\* knowledge.py lines 178-193: the solutions of the documents named, in order.
scan(names, docs) ==
    IF names = <<>> THEN <<>>
    ELSE LET fm == _parse_frontmatter(docs[Head(names)])
         IN (IF fm.keys = <<>> THEN <<>>
             ELSE <<[file |-> Head(names),
                     error_class |-> fm_get(fm, "error_class", <<>>),
                     transaction |-> fm_get(fm, "transaction", <<>>),
                     fix_confidence |-> fm_get(fm, "fix_confidence", "low"),
                     has_fix |-> fm_get(fm, "has_fix", FALSE),
                     tags |-> fm_get(fm, "tags", {})]>>)
                \o scan(Tail(names), docs)

RECURSIVE sort_by_score(_)
\* list.sort(key=score, reverse=True): stable, the highest score first.
sort_by_score(scored) ==
    IF scored = <<>> THEN <<>>
    ELSE LET i == CHOOSE j \in 1..Len(scored) :
                    /\ \A k \in 1..Len(scored) : scored[k].score <= scored[j].score
                    /\ \A k \in 1..(j - 1) : scored[k].score < scored[j].score
         IN <<scored[i]>>
                \o sort_by_score(SubSeq(scored, 1, i - 1)
                                    \o SubSeq(scored, i + 1, Len(scored)))

RECURSIVE select_seq(_, _)
\* The entries of a sequence with one of the names or scores kept, in order.
select_seq(entries, kept) ==
    IF entries = <<>> THEN <<>>
    ELSE (IF Head(entries) \in kept THEN <<Head(entries)>> ELSE <<>>)
            \o select_seq(Tail(entries), kept)

\* knowledge.py lines 27-93: what search_prior_knowledge returns for the index
\* and the documents it finds on the disk.
search_prior_knowledge(error, max_results, index, docs) ==
    IF ~index.exists \/ ~index.complete \/ index.solutions = <<>> THEN <<>>
    ELSE LET error_tags == _extract_tags(error)
             scored == [i \in 1..Len(index.solutions) |->
                            [score |-> _match_score(error, index.solutions[i],
                                                    error_tags),
                             file |-> index.solutions[i].file]]
             ranked == sort_by_score(select_seq(scored,
                                        {x \in Range(scored) : x.score > 0}))
             top == SubSeq(ranked, 1, min(max_results, Len(ranked)))
             found == select_seq(top, {x \in Range(top) : x.file \in DOMAIN docs})
         IN [i \in 1..Len(found) |->
                [source_file |-> found[i].file, match_score |-> found[i].score]]

\* The analyses whose results are compounded.
KsAnalyses == {IncompleteAnalysis}

\* The process of the run is between two calls of the knowledge module.
ks_idle == ks_pending.target = "none"

\* Path.write_text opens the file, which empties it or creates it empty.
open_doc(name) ==
    [n \in DOMAIN ks_docs \cup {name} |-> IF n = name THEN EmptyFile ELSE ks_docs[n]]

\* compound_result, lines 96-160, up to the open() of its write_text: the
\* document is named by today's date and the slug, whatever is on the disk.
CompoundResult(error, analysis) ==
    /\ ks_idle
    /\ ks_clock < MaxCompounds
    /\ LET name == doc_name(error, ks_today)
           content == _render_frontmatter(FrontmatterKeys,
                            frontmatter_of(error, analysis, ks_today, ks_clock + 1),
                            "body")
       IN /\ ks_pending' = [target |-> "doc", op |-> "compound_result", name |-> name,
                            content |-> content, solutions |-> <<>>]
          /\ ks_hist' = [op |-> "compound_result", name |-> name,
                         existed |-> name \in DOMAIN ks_docs,
                         before |-> IF name \in DOMAIN ks_docs THEN ks_docs[name]
                                    ELSE EmptyFile,
                         after |-> content,
                         fresh |-> [stage |-> "compounded", name |-> name,
                                    error |-> error]]
          /\ ks_docs' = open_doc(name)
    /\ ks_clock' = ks_clock + 1
    /\ ks_search' = NoSearch
    /\ ks_seen' = NoSeen
    /\ UNCHANGED <<ks_index, ks_today, nonKsVars>>

\* rebuild_index, lines 163-221, up to the open() of its write_text: the
\* documents are scanned in the order of their names and index.yml is opened.
RebuildIndex ==
    /\ ks_idle
    /\ ks_pending' = [target |-> "index", op |-> "rebuild_index", name |-> NoName,
                      content |-> EmptyFile,
                      solutions |-> scan(sorted(DOMAIN ks_docs), ks_docs)]
    /\ ks_index' = [exists |-> TRUE, complete |-> FALSE, solutions |-> <<>>]
    /\ ks_hist' = [ks_hist EXCEPT !.fresh.stage =
                        IF @ = "compounded" THEN "rebuilt" ELSE "none"]
    /\ ks_search' = NoSearch
    /\ ks_seen' = NoSeen
    /\ UNCHANGED <<ks_docs, ks_today, ks_clock, nonKsVars>>

\* The names of the documents update_result_metadata matches, lines 322-334.
matching(error_class, transaction) ==
    {n \in DOMAIN ks_docs :
        LET fm == _parse_frontmatter(ks_docs[n])
        IN /\ fm_get(fm, "error_class", <<>>) = error_class
           /\ fm_get(fm, "transaction", <<>>) = transaction}

\* dict[key] = value on a parsed frontmatter: a new key goes last.
fm_set(fm, key, value) ==
    [fm EXCEPT !.keys = IF key \in Range(@) THEN @ ELSE Append(@, key),
               !.vals = [@ EXCEPT ![key] = value]]

\* update_result_metadata, lines 300-351, up to the open() of its write_text,
\* when a document matches: the last of the matching names is rewritten.
UpdateResultMetadata(error, issue_number, pr_number) ==
    /\ ks_idle
    /\ matching(error.error_class, error.transaction) /= {}
    /\ LET names == sorted(matching(error.error_class, error.transaction))
           target == names[Len(names)]
           fm == _parse_frontmatter(ks_docs[target])
           fm1 == IF issue_number /= 0 THEN fm_set(fm, "issue_number", issue_number)
                  ELSE fm
           fm2 == IF pr_number /= 0 THEN fm_set(fm1, "pr_number", pr_number) ELSE fm1
           content == _render_frontmatter(fm2.keys, fm2.vals, fm2.body)
       IN /\ ks_pending' = [target |-> "doc", op |-> "update_result_metadata",
                            name |-> target, content |-> content, solutions |-> <<>>]
          /\ ks_hist' = [op |-> "update_result_metadata", name |-> target,
                         existed |-> TRUE, before |-> ks_docs[target],
                         after |-> content,
                         fresh |-> NoFresh]
          /\ ks_docs' = open_doc(target)
    /\ ks_search' = NoSearch
    /\ ks_seen' = NoSeen
    /\ UNCHANGED <<ks_index, ks_today, ks_clock, nonKsVars>>

\* write_text writes the text and closes the file.
WriteText ==
    /\ ks_pending.target /= "none"
    /\ IF ks_pending.target = "doc"
       THEN /\ ks_docs' = [ks_docs EXCEPT ![ks_pending.name] = ks_pending.content]
            /\ UNCHANGED ks_index
       ELSE /\ ks_index' = [exists |-> TRUE, complete |-> TRUE,
                            solutions |-> ks_pending.solutions]
            /\ UNCHANGED ks_docs
    /\ ks_pending' = NoPending
    /\ ks_search' = NoSearch
    /\ ks_seen' = NoSeen
    /\ UNCHANGED <<ks_today, ks_clock, ks_hist, nonKsVars>>

\* search_prior_knowledge(error), by the run itself or by another process. The
\* search comes right after a compound_result and a rebuild_index when the
\* run makes it and nothing was written in between.
SearchPriorKnowledge(error, max_results) ==
    /\ ks_search' = [called |-> TRUE,
                     roundtrip |-> /\ ks_idle
                                   /\ ks_hist.fresh.stage = "rebuilt"
                                   /\ ks_hist.fresh.error = error,
                     name |-> ks_hist.fresh.name,
                     results |-> search_prior_knowledge(error, max_results, ks_index,
                                                        ks_docs)]
    /\ ks_seen' = IF ks_index.exists
                  THEN [file |-> "index", during |-> ks_pending.op,
                        complete |-> ks_index.complete]
                  ELSE ks_seen
    /\ UNCHANGED <<ks_docs, ks_index, ks_pending, ks_today, ks_clock, ks_hist,
                   nonKsVars>>

\* Another process reads the document the run is writing.
ReadDocument ==
    /\ ks_pending.target = "doc"
    /\ ks_seen' = [file |-> "doc", during |-> ks_pending.op,
                   complete |-> ks_docs[ks_pending.name].complete]
    /\ UNCHANGED <<ks_docs, ks_index, ks_pending, ks_today, ks_clock, ks_hist,
                   ks_search, nonKsVars>>

\* Midnight, UTC.
NextDay ==
    /\ ks_today < MaxDays
    /\ ks_today' = ks_today + 1
    /\ ks_search' = NoSearch
    /\ ks_seen' = NoSeen
    /\ UNCHANGED <<ks_docs, ks_index, ks_pending, ks_clock, ks_hist, nonKsVars>>

\* The store n earlier runs have left, each on its own day and each with a
\* document for the same error group, indexed; today is the day after.
prior_docs(n, error) ==
    [name \in {doc_name(error, day) : day \in 1..n} |->
        _render_frontmatter(FrontmatterKeys,
                            frontmatter_of(error, IncompleteAnalysis, name[1], 0),
                            "body")]

KsPriorInit(n, error) ==
    /\ ks_docs = prior_docs(n, error)
    /\ ks_index = [exists |-> n > 0, complete |-> n > 0,
                   solutions |-> scan(sorted(DOMAIN prior_docs(n, error)),
                                      prior_docs(n, error))]
    /\ ks_pending = NoPending
    /\ ks_today = n + 1
    /\ ks_clock = 0
    /\ ks_hist = [op |-> "none", name |-> NoName, existed |-> FALSE,
                  before |-> EmptyFile, after |-> EmptyFile,
                  fresh |-> NoFresh]
    /\ ks_search = NoSearch
    /\ ks_seen = NoSeen

KnowledgeInit ==
    /\ BusVarsInit
    /\ CoreInit
    /\ AnVarsInit
    /\ WfVarsInit
    /\ BtVarsInit
    /\ LateInit
    /\ \E n \in 0..MaxPrior :
            KsPriorInit(n, CHOOSE error \in KsErrors : dashes(error.message) = "none")

KnowledgeNext ==
    \/ \E error \in KsErrors, analysis \in KsAnalyses : CompoundResult(error, analysis)
    \/ RebuildIndex
    \/ \E error \in KsErrors, numbers \in {<<7, 0>>, <<0, 9>>} :
            UpdateResultMetadata(error, numbers[1], numbers[2])
    \/ WriteText
    \/ \E error \in KsErrors : SearchPriorKnowledge(error, 3)
    \/ ReadDocument
    \/ NextDay

SpecKnowledge == KnowledgeInit /\ [][KnowledgeNext]_vars

----------------------------------------------------------------------------
(* Claims about the knowledge store *)

\* C25: the knowledge store is append-only: compound_result always creates a
\* new document and never overwrites or alters one that exists, and the only
\* change update_result_metadata makes to a document is to its issue_number
\* and pr_number.
C25_AppendOnly ==
    /\ ks_hist.op = "compound_result" => ~ks_hist.existed
    /\ ks_hist.op = "update_result_metadata" =>
            /\ ks_hist.after.keys = ks_hist.before.keys
            /\ ks_hist.after.body = ks_hist.before.body
            /\ [ks_hist.after.vals EXCEPT
                    !.issue_number = ks_hist.before.vals.issue_number,
                    !.pr_number = ks_hist.before.vals.pr_number]
                = ks_hist.before.vals

\* C26: whoever reads the index, or a document that is being back-filled,
\* reads a complete text, the old one or the new one, never an empty or a
\* partly written file.
C26_ReadersSeeCompleteFiles ==
    (\/ ks_seen.file = "index"
     \/ ks_seen.file = "doc" /\ ks_seen.during = "update_result_metadata")
        => ks_seen.complete

\* C27: after compound_result(r) and rebuild_index(), whatever the store held
\* before, search_prior_knowledge(r.error, 3) returns an entry whose
\* source_file is the document just written and whose match_score is at
\* least 0.8.
C27_CompoundSearchRoundTrip ==
    ks_search.roundtrip =>
        \E i \in 1..Len(ks_search.results) :
            /\ ks_search.results[i].source_file = ks_search.name
            /\ ks_search.results[i].match_score >= 8

----------------------------------------------------------------------------
(* The workflows: nightwatch/workflows/base.py, errors.py, ci_doctor.py and *)
(* patterns.py. Confidences are counted in hundredths.                     *)

\* The longest list act() is called with.
MaxActions == 2

\* base.py lines 14-22: SafeOutput
SafeOutput ==
    {"create_issue", "create_pr", "add_comment", "add_label", "send_slack",
     "write_file"}

\* Workflow.safe_outputs of the three registered workflows: errors.py lines
\* 26-30, ci_doctor.py lines 58-62, patterns.py line 28.
safe_outputs(workflow) ==
    CASE workflow = "errors" -> {"create_issue", "create_pr", "send_slack"}
      [] workflow = "ci_doctor" -> {"add_comment", "add_label", "send_slack"}
      [] workflow = "patterns" -> {"create_issue", "send_slack"}
      [] OTHER -> {}

\* base.py lines 75-83
check_safe_output(workflow, action_type) == action_type \in safe_outputs(workflow)

\* The lists of at most MaxActions members of a set.
SeqsOf(S) == UNION {[1..n -> S] : n \in 0..MaxActions}

\* The dicts of kwargs["actions_taken"]: a "type" that is a SafeOutput or is
\* none (the key may also be missing), and "success".
ActionData ==
    [type : SafeOutput \cup {"delete_branch", "<no type>"}, success : BOOLEAN]

\* errors.py line 71: action_data.get("type", SafeOutput.CREATE_ISSUE)
type_of(action_data) ==
    IF action_data.type = "<no type>" THEN "create_issue" ELSE action_data.type

\* The action types of a list of action data or of actions.
types(list) == [i \in 1..Len(list) |-> list[i].action_type]

\* The members of a list of action types that the workflow declares, or does not.
RECURSIVE declared(_, _, _)
declared(workflow, list, wanted) ==
    IF list = <<>> THEN <<>>
    ELSE (IF check_safe_output(workflow, Head(list).action_type) = wanted
          THEN <<Head(list)>> ELSE <<>>)
            \o declared(workflow, Tail(list), wanted)

\* errors.py lines 69-80: the actions the loop of act builds, before the check.
errors_attempts(actions_taken) ==
    [i \in 1..Len(actions_taken) |->
        [action_type |-> type_of(actions_taken[i]),
         success |-> actions_taken[i].success]]

\* The log of an act() that passes each attempt to check_safe_output.
checked_log(workflow, attempts) ==
    [attempted |-> types(attempts), checked |-> types(attempts),
     warnings |-> types(declared(workflow, attempts, FALSE))]

\* errors.py lines 67-81: ErrorAnalysisWorkflow.act
ErrorsAct(actions_taken) ==
    /\ wf_name' = "errors"
    /\ wf_kwargs' = [dry_run |-> FALSE, confidences |-> <<>>,
                     actions_taken |-> actions_taken]
    /\ wf_actions' = declared("errors", errors_attempts(actions_taken), TRUE)
    /\ wf_log' = checked_log("errors", errors_attempts(actions_taken))
    /\ UNCHANGED nonWfVars

\* The confidences of a list that are over a threshold.
RECURSIVE over(_, _)
over(confidences, threshold) ==
    IF confidences = <<>> THEN <<>>
    ELSE (IF Head(confidences) > threshold THEN <<Head(confidences)>> ELSE <<>>)
            \o over(Tail(confidences), threshold)

\* One action of the type for each confidence over the threshold.
confident_attempts(confidences, threshold, action_type, dry_run_) ==
    [i \in 1..Len(over(confidences, threshold)) |->
        [action_type |-> action_type, success |-> ~dry_run_]]

\* ci_doctor.py lines 139-158: CIDoctorWorkflow.act, which builds and appends
\* its actions without a call of check_safe_output.
CIDoctorAct(confidences, dry_run_) ==
    /\ wf_name' = "ci_doctor"
    /\ wf_kwargs' = [dry_run |-> dry_run_, confidences |-> confidences,
                     actions_taken |-> <<>>]
    /\ wf_actions' = confident_attempts(confidences, 50, "add_comment", dry_run_)
    /\ wf_log' = [attempted |-> types(confident_attempts(confidences, 50,
                                                         "add_comment", dry_run_)),
                  checked |-> <<>>, warnings |-> <<>>]
    /\ UNCHANGED nonWfVars

\* patterns.py lines 96-116: PatternAnalysisWorkflow.act
PatternsAct(confidences, dry_run_) ==
    /\ wf_name' = "patterns"
    /\ wf_kwargs' = [dry_run |-> dry_run_, confidences |-> confidences,
                     actions_taken |-> <<>>]
    /\ wf_actions' = declared("patterns",
                              confident_attempts(confidences, 60, "create_issue",
                                                 dry_run_), TRUE)
    /\ wf_log' = checked_log("patterns",
                             confident_attempts(confidences, 60, "create_issue",
                                                dry_run_))
    /\ UNCHANGED nonWfVars

WorkflowInit == BusVarsInit /\ RestInit

WorkflowNext ==
    \/ \E actions_taken \in SeqsOf(ActionData) : ErrorsAct(actions_taken)
    \/ \E confidences \in SeqsOf({0, 90, 95}), dry_run_ \in BOOLEAN :
            CIDoctorAct(confidences, dry_run_)
    \/ \E confidences \in SeqsOf({55, 60, 65, 95}), dry_run_ \in BOOLEAN :
            PatternsAct(confidences, dry_run_)

SpecWorkflow == WorkflowInit /\ [][WorkflowNext]_vars

\* C28: every action a workflow attempts is passed to check_safe_output; no
\* act() returns an action whose type the workflow's safe_outputs does not
\* declare; an attempted action of an undeclared type is refused with a warning.
C28_ActionsGoThroughCheck ==
    /\ wf_log.checked = wf_log.attempted
    /\ \A i \in 1..Len(wf_actions) :
            wf_actions[i].action_type \in safe_outputs(wf_name)
    /\ \A i \in 1..Len(wf_log.attempted) :
            wf_log.attempted[i] \notin safe_outputs(wf_name) =>
                /\ wf_log.attempted[i] \in Range(wf_log.warnings)
                /\ wf_log.attempted[i] \notin Range(types(wf_actions))

----------------------------------------------------------------------------
(* Batch triage: nightwatch/batch.py, BatchTriageClient                    *)

\* The batches submitted, and the errors of one batch.
MaxBatches == 2
MaxBatchErrors == 2

\* The error classes of the errors submitted.
BtErrorClasses == {"KeyError", "ActiveRecord::ConnectionTimeoutError"}

\* The lists of errors submitted: one error at least.
BtErrorLists == UNION {[1..n -> BtErrorClasses] : n \in 1..MaxBatchErrors}

\* error_class[:30]
first_30(error_class) ==
    IF error_class = "ActiveRecord::ConnectionTimeoutError"
    THEN "ActiveRecord::ConnectionTimeou" ELSE error_class

\* batch.py lines 97-133: custom_id_map, from "triage-<i>-<class>" to the
\* error's class and index (enumerate counts from 0).
custom_id_map_of(errors) ==
    {[custom_id |-> <<"triage", i - 1, first_30(errors[i])>>,
      error_class |-> errors[i], index |-> i - 1] : i \in 1..Len(errors)}

\* batch.py lines 81-139: submit_batch up to the answer of batches.create,
\* which gives the batch its id or raises.
SubmitBatch(errors, created) ==
    /\ bt_pc = "idle"
    /\ bt_next < MaxBatches
    /\ IF created
       THEN /\ bt_next' = bt_next + 1
            /\ bt_call' = [batch_id |-> bt_next + 1, error_count |-> Len(errors),
                           custom_id_map |-> custom_id_map_of(errors)]
            /\ bt_pc' = "created"
       ELSE UNCHANGED <<bt_next, bt_call, bt_pc>>
    /\ UNCHANGED <<bt_files, bt_seen, nonBtVars>>

\* batch.py lines 149-150: state_file.write_text opens "<batch.id>.json" for
\* writing, which creates it empty.
OpenStateFile ==
    /\ bt_pc = "created"
    /\ bt_files' = Append(bt_files, [batch_id |-> bt_call.batch_id,
                                     written |-> FALSE, state |-> NoBatch])
    /\ bt_pc' = "open"
    /\ UNCHANGED <<bt_call, bt_next, bt_seen, nonBtVars>>

\* batch.py lines 150-162: write_text writes the JSON text and closes the
\* file; submit_batch returns batch.id.
WriteStateFile ==
    /\ bt_pc = "open"
    /\ bt_files' = [bt_files EXCEPT ![Len(bt_files)] =
                        [batch_id |-> bt_call.batch_id, written |-> TRUE,
                         state |-> bt_call]]
    /\ bt_pc' = "idle"
    /\ bt_call' = NoBatch
    /\ UNCHANGED <<bt_next, bt_seen, nonBtVars>>

\* The process dies inside submit_batch: after batches.create, or inside
\* write_text.
Crash ==
    /\ bt_pc \in {"created", "open"}
    /\ bt_pc' = "idle"
    /\ bt_call' = NoBatch
    /\ UNCHANGED <<bt_files, bt_next, bt_seen, nonBtVars>>

\* json.loads(path.read_text()) of a state file.
load_state(file) ==
    IF file.written THEN [outcome |-> "loaded", state |-> file.state]
    ELSE [outcome |-> "JSONDecodeError", state |-> NoBatch]

\* batch.py lines 263-276: get_latest_batch_id in a later invocation.
GetLatestBatchId ==
    /\ bt_pc = "idle"
    /\ bt_seen' = IF bt_files = <<>>
                  THEN [by |-> "get_latest_batch_id", outcome |-> "None",
                        state |-> NoBatch]
                  ELSE [by |-> "get_latest_batch_id"]
                            @@ load_state(bt_files[Len(bt_files)])
    /\ UNCHANGED <<bt_pc, bt_call, bt_files, bt_next, nonBtVars>>

\* batch.py lines 164-183: poll_results(batch_id) in a later invocation, up to
\* the state it loads.
PollResults(batch_id) ==
    /\ bt_pc = "idle"
    /\ bt_seen' = IF \E i \in 1..Len(bt_files) : bt_files[i].batch_id = batch_id
                  THEN [by |-> "poll_results"]
                            @@ load_state(bt_files[CHOOSE i \in 1..Len(bt_files) :
                                                        bt_files[i].batch_id = batch_id])
                  ELSE [by |-> "poll_results", outcome |-> "FileNotFoundError",
                        state |-> NoBatch]
    /\ UNCHANGED <<bt_pc, bt_call, bt_files, bt_next, nonBtVars>>

BatchInit == BusVarsInit /\ RestInit

BatchNext ==
    \/ \E errors \in BtErrorLists, created \in BOOLEAN : SubmitBatch(errors, created)
    \/ OpenStateFile
    \/ WriteStateFile
    \/ Crash
    \/ GetLatestBatchId
    \/ \E batch_id \in 1..MaxBatches : PollResults(batch_id)

SpecBatch == BatchInit /\ [][BatchNext]_vars

\* C29: whenever submit_batch is cut short by a crash, a later invocation
\* finds no record file or a complete one it can parse, never a truncated or
\* partly written record.
C29_RecordCrashSafe == bt_seen.outcome /= "JSONDecodeError"

----------------------------------------------------------------------------
(* A claim about the writes of an invocation, checked under SpecRun *)

\* The write of the quality signals, of the knowledge base or of the run
\* history has raised.
WriteRaised ==
    \/ Logged("quality_tracker.save raised")
    \/ Logged("compound_result raised")
    \/ Logged("save_run raised")

\* C30: the writes of the knowledge base, of the quality signals and of the
\* run history are best-effort: when one of them raises, the failure is logged
\* and the run does not fail but returns its report.
C30_WritesBestEffort ==
    /\ WriteRaised => run_pc = "returned" /\ report.built
    /\ Logged("compound_result raised") => Logged("Knowledge compounding failed")
    /\ Logged("save_run raised") => Logged("Failed to save run history")

\* C38: a run makes at most one pull request, and makes it only for an analysis
\* with has_fix true and file_changes that are not empty whose issue was newly
\* created (not commented on) earlier in the same run; the pull request is
\* made with the number of that issue.
C38_OnePullRequestForCreatedIssue ==
    /\ Cardinality(pr_result) <= 1
    /\ \A i \in pr_result :
            /\ best_fix # NoFix
            /\ best_fix.result.error = effects[i].error
            /\ best_fix.result.analysis.has_fix
            /\ best_fix.result.analysis.file_changes # <<>>
            /\ \E n \in DOMAIN analyses : analyses[n] = best_fix.result
            /\ \E k \in 1..(i - 1) :
                    effects[k].kind = "issue" /\ effects[k].error = effects[i].error
            /\ \E j \in DOMAIN issues_created :
                    /\ issues_created[j].error = effects[i].error
                    /\ issues_created[j].action = "created"
                    /\ issues_created[j].issue_number = best_fix.issue_number

\* A run that created one issue and commented on another has made its pull
\* request for the analysis of the issue it created.
C38_Witness ==
    /\ pr_result # {}
    /\ \E j \in DOMAIN issues_created : issues_created[j].action = "commented"
    /\ \E n \in DOMAIN analyses :
            /\ analyses[n].analysis.has_fix
            /\ analyses[n].analysis.file_changes # <<>>
            /\ analyses[n] # best_fix.result

----------------------------------------------------------------------------
(* One LLM call: nightwatch/analyzer.py, _call_claude_with_retry.  Waits are  *)
(* in whole seconds.                                                          *)

\* The default of the parameter max_retries; _single_pass passes none.
max_retries == 5

\* The default of the parameter base_delay, in seconds.
base_delay == 15

\* random.uniform(1, 5): its two ends.
Jitter == {1, 5}

\* The retry-after headers of a 429 or 529: none, and two numbers of seconds.
RetryAfter == {"", "3", "200"}

\* float(retry_after) of line 446.
float_of(header) == CASE header = "3" -> 3 [] header = "200" -> 200 [] OTHER -> 0

\* The exceptions messages.create raises: an APIStatusError with its status
\* code (a 429 or 529 with or without a retry-after header, a 400 about the
\* credit balance or not, a 500), an APIConnectionError, and an exception of
\* neither class.
StatusErrors ==
    [kind : {"APIStatusError"}, status_code : {429, 529}, retry_after : RetryAfter,
     credit : {FALSE}]
        \cup [kind : {"APIStatusError"}, status_code : {400}, retry_after : {""},
              credit : BOOLEAN]
        \cup [kind : {"APIStatusError"}, status_code : {500}, retry_after : {""},
              credit : {FALSE}]

OtherErrors ==
    {[kind |-> "APIConnectionError", status_code |-> 0, retry_after |-> "",
      credit |-> FALSE],
     [kind |-> "ValueError", status_code |-> 0, retry_after |-> "", credit |-> FALSE]}

TwoToThe(n) == IF n = 0 THEN 1 ELSE IF n = 1 THEN 2 ELSE IF n = 2 THEN 4
               ELSE IF n = 3 THEN 8 ELSE 16

\* Line 441 taken with every status code.
rate_limited_whatever_status(e) == e.kind = "APIStatusError"

\* Line 441: e.status_code in (429, 529).
rate_limited(e) == e.kind = "APIStatusError" /\ e.status_code \in {429, 529}

\* Line 457: e.status_code == 400 and "credit balance" in str(e.message).lower().
credit_low(e) == e.kind = "APIStatusError" /\ e.status_code = 400 /\ e.credit

\* Lines 443-450: the delay of a rate-limited attempt.
rate_limit_delay(e, attempt, jitter) ==
    IF e.retry_after # ""
    THEN float_of(e.retry_after) + jitter
    ELSE min(base_delay * TwoToThe(attempt), 120) + jitter

\* Line 465: the delay after a connection error.
connection_delay(attempt) == base_delay * TwoToThe(attempt)

slept(e, delay) ==
    [creates |-> rt_hist.creates,
     retried |-> rt_hist.retried \cup {[e EXCEPT !.retry_after = ""]},
     longest |-> IF delay > rt_hist.longest THEN delay ELSE rt_hist.longest]

\* _single_pass line 298 calls _call_claude_with_retry.
CallClaude ==
    /\ rt_pc = "idle"
    /\ rt_pc' = "loop"
    /\ rt_attempt' = 0
    /\ UNCHANGED <<rt_last_error, rt_delay, rt_raised, rt_hist, nonRtVars>>

\* Lines 411-427: the for loop has an attempt left and calls messages.create.
Create ==
    /\ rt_pc = "loop"
    /\ rt_attempt < max_retries
    /\ rt_pc' = "create"
    /\ rt_hist' = [rt_hist EXCEPT !.creates = @ + 1]
    /\ UNCHANGED <<rt_attempt, rt_last_error, rt_delay, rt_raised, nonRtVars>>

\* Lines 429-437: messages.create returned; the response and its tokens are
\* returned.
CreateReturns ==
    /\ rt_pc = "create"
    /\ rt_pc' = "returned"
    /\ UNCHANGED <<rt_attempt, rt_last_error, rt_delay, rt_raised, rt_hist, nonRtVars>>

\* Lines 439-456: a 429 or a 529; the call sleeps.
RateLimited(e, jitter) ==
    /\ rt_pc = "create"
    /\ rate_limited(e)
    /\ rt_last_error' = e
    /\ rt_delay' = rate_limit_delay(e, rt_attempt, jitter)
    /\ rt_hist' = slept(e, rate_limit_delay(e, rt_attempt, jitter))
    /\ rt_pc' = "sleep"
    /\ UNCHANGED <<rt_attempt, rt_raised, nonRtVars>>

\* Lines 439-440 and 457-459: a 400 about the credit balance; the call sleeps 1s.
CreditLow(e) ==
    /\ rt_pc = "create"
    /\ ~rate_limited(e)
    /\ credit_low(e)
    /\ rt_last_error' = e
    /\ rt_delay' = 1
    /\ rt_hist' = slept(e, 1)
    /\ rt_pc' = "sleep"
    /\ UNCHANGED <<rt_attempt, rt_raised, nonRtVars>>

\* Lines 439-440 and 460-461: any other APIStatusError is raised again.
StatusErrorRaised(e) ==
    /\ rt_pc = "create"
    /\ e.kind = "APIStatusError"
    /\ ~rate_limited(e)
    /\ ~credit_low(e)
    /\ rt_last_error' = e
    /\ rt_raised' = e
    /\ rt_pc' = "raised"
    /\ UNCHANGED <<rt_attempt, rt_delay, rt_hist, nonRtVars>>

\* Lines 463-470: an APIConnectionError; the call sleeps.
ConnectionError(e) ==
    /\ rt_pc = "create"
    /\ e.kind = "APIConnectionError"
    /\ rt_last_error' = e
    /\ rt_delay' = connection_delay(rt_attempt)
    /\ rt_hist' = slept(e, connection_delay(rt_attempt))
    /\ rt_pc' = "sleep"
    /\ UNCHANGED <<rt_attempt, rt_raised, nonRtVars>>

\* An exception no except clause of lines 439 and 463 names leaves the call.
Uncaught(e) ==
    /\ rt_pc = "create"
    /\ e.kind \notin {"APIStatusError", "APIConnectionError"}
    /\ rt_raised' = e
    /\ rt_pc' = "raised"
    /\ UNCHANGED <<rt_attempt, rt_last_error, rt_delay, rt_hist, nonRtVars>>

\* time.sleep returns and the for loop of line 411 goes to its next attempt.
Slept ==
    /\ rt_pc = "sleep"
    /\ rt_attempt' = rt_attempt + 1
    /\ rt_pc' = "loop"
    /\ UNCHANGED <<rt_last_error, rt_delay, rt_raised, rt_hist, nonRtVars>>

\* Line 472: the for loop is over; last_error is raised.
RaiseLastError ==
    /\ rt_pc = "loop"
    /\ rt_attempt >= max_retries
    /\ rt_raised' = rt_last_error
    /\ rt_pc' = "raised"
    /\ UNCHANGED <<rt_attempt, rt_last_error, rt_delay, rt_hist, nonRtVars>>

RetryInit == BusVarsInit /\ RestInit

RetryNext ==
    \/ CallClaude
    \/ Create
    \/ CreateReturns
    \/ \E e \in StatusErrors, jitter \in Jitter : RateLimited(e, jitter)
    \/ \E e \in StatusErrors : CreditLow(e)
    \/ \E e \in StatusErrors : StatusErrorRaised(e)
    \/ \E e \in OtherErrors : ConnectionError(e)
    \/ \E e \in OtherErrors : Uncaught(e)
    \/ Slept
    \/ RaiseLastError

SpecRetry == RetryInit /\ [][RetryNext]_vars

\* The failures the specification has retried: 429 and 529, a 400 about the
\* credit balance, a connection error.
C31_Retried(e) ==
    \/ e.kind = "APIStatusError" /\ e.status_code \in {429, 529}
    \/ e.kind = "APIStatusError" /\ e.status_code = 400 /\ e.credit
    \/ e.kind = "APIConnectionError"

\* C31: one LLM call makes at most 5 attempts; a rate-limit, credit-low or
\* connection failure is retried while attempts are left, any other failure
\* leaves the call at once and unretried, and after the fifth failed attempt
\* the last error is raised to the caller.
C31_AtMostFiveAttempts ==
    /\ rt_hist.creates <= 5
    /\ \A e \in rt_hist.retried : C31_Retried(e)
    /\ rt_pc = "sleep" => C31_Retried(rt_last_error)
    /\ rt_pc = "raised" =>
            IF C31_Retried(rt_raised)
            THEN rt_hist.creates = 5 /\ rt_raised = rt_last_error
            ELSE rt_raised \notin rt_hist.retried

\* A call whose five attempts failed with retried failures has raised the last.
C31_Witness ==
    /\ rt_pc = "raised"
    /\ rt_hist.creates = 5
    /\ rt_raised.kind = "APIConnectionError"
    /\ \E e \in rt_hist.retried : e.status_code = 429
    /\ \E e \in rt_hist.retried : credit_low(e)

\* C32: no wait of the retry logic is longer than 120 seconds, whatever the
\* attempt and whatever the failure retried.
C32_NoWaitOver120 == rt_hist.longest <= 120

----------------------------------------------------------------------------
(* Polling a batch: nightwatch/batch.py, BatchAnalyzer.poll_results.  Times   *)
(* are in units of one second.                                                *)

\* The largest poll_interval and max_wait a caller passes, the most results a
\* batch holds, and the number of status polls that are counted.
MaxInterval == 2
MaxWait == 4
MaxResults == 2
MaxPolls == 3

\* The results of a batch at the API: for each request, whether it succeeded.
BatchResults == UNION {[1..n -> {"succeeded", "errored"}] : n \in 0..MaxResults}

\* Lines 202-234: one TriageResult per result of the batch, parsed from the
\* message of a request that succeeded and the default for any other.
collect(batch_results) ==
    [i \in 1..Len(batch_results) |->
        [custom_id |-> i, parsed |-> batch_results[i] = "succeeded",
         needs_deep_investigation |-> TRUE]]

\* Line 197 with > for >=.
gave_up_past(elapsed, max_wait) == elapsed > max_wait

\* Line 197: elapsed >= max_wait.
gave_up(elapsed, max_wait) == elapsed >= max_wait

\* Lines 161-183, and 185 to the first retrieve: poll_results(batch_id,
\* poll_interval, max_wait) with the saved state of the batch on disk or not.
PollResultsCall(saved, poll_interval, max_wait, batch_results) ==
    /\ pl_pc = "idle"
    /\ pl_args' = [poll_interval |-> poll_interval, max_wait |-> max_wait]
    /\ pl_api' = [processing_status |-> "in_progress", results |-> batch_results]
    /\ pl_elapsed' = 0
    /\ pl_hist' = [polls |-> 0, ended |-> FALSE]
    /\ IF saved
       THEN /\ pl_pc' = "while"
            /\ pl_out' = NoOut
       ELSE /\ pl_pc' = "raised"
            /\ pl_out' = [kind |-> "FileNotFoundError", results |-> <<>>]
    /\ UNCHANGED nonPlVars

\* The API finishes the batch.
BatchEnds ==
    /\ pl_pc \in {"while", "sleep"}
    /\ pl_api.processing_status = "in_progress"
    /\ pl_api' = [pl_api EXCEPT !.processing_status = "ended"]
    /\ UNCHANGED <<pl_pc, pl_args, pl_elapsed, pl_out, pl_hist, nonPlVars>>

\* Lines 185-194: elapsed < max_wait, the batch is retrieved, and it has ended
\* (break) or not (time.sleep).
Retrieve ==
    /\ pl_pc = "while"
    /\ pl_elapsed < pl_args.max_wait
    /\ pl_hist' = [polls |-> min(pl_hist.polls + 1, MaxPolls),
                   ended |-> pl_api.processing_status = "ended"]
    /\ pl_pc' = IF pl_api.processing_status = "ended" THEN "after" ELSE "sleep"
    /\ UNCHANGED <<pl_args, pl_elapsed, pl_api, pl_out, nonPlVars>>

\* Line 186: batches.retrieve raises.
RetrieveRaises ==
    /\ pl_pc = "while"
    /\ pl_elapsed < pl_args.max_wait
    /\ pl_pc' = "raised"
    /\ pl_out' = [kind |-> "APIError", results |-> <<>>]
    /\ UNCHANGED <<pl_args, pl_elapsed, pl_api, pl_hist, nonPlVars>>

\* Lines 194-195: time.sleep(poll_interval) returns; elapsed += poll_interval.
PollSleep ==
    /\ pl_pc = "sleep"
    /\ pl_elapsed' = pl_elapsed + pl_args.poll_interval
    /\ pl_pc' = "while"
    /\ UNCHANGED <<pl_args, pl_api, pl_out, pl_hist, nonPlVars>>

\* Line 185 false: the while loop is over.
WhileExit ==
    /\ pl_pc = "while"
    /\ ~(pl_elapsed < pl_args.max_wait)
    /\ pl_pc' = "after"
    /\ UNCHANGED <<pl_args, pl_elapsed, pl_api, pl_out, pl_hist, nonPlVars>>

\* Lines 197-199: the wait is over without the batch; [] is returned.
GiveUp ==
    /\ pl_pc = "after"
    /\ gave_up(pl_elapsed, pl_args.max_wait)
    /\ pl_out' = [kind |-> "list", results |-> <<>>]
    /\ pl_pc' = "returned"
    /\ UNCHANGED <<pl_args, pl_elapsed, pl_api, pl_hist, nonPlVars>>

\* Lines 201-240: the results of the batch are collected and returned.
CollectResults ==
    /\ pl_pc = "after"
    /\ ~gave_up(pl_elapsed, pl_args.max_wait)
    /\ pl_out' = [kind |-> "list", results |-> collect(pl_api.results)]
    /\ pl_pc' = "returned"
    /\ UNCHANGED <<pl_args, pl_elapsed, pl_api, pl_hist, nonPlVars>>

PollInit == BusVarsInit /\ RestInit

PollNext ==
    \/ \E saved \in BOOLEAN, poll_interval \in 0..MaxInterval, max_wait \in 0..MaxWait,
          batch_results \in BatchResults :
            PollResultsCall(saved, poll_interval, max_wait, batch_results)
    \/ BatchEnds
    \/ Retrieve
    \/ RetrieveRaises
    \/ PollSleep
    \/ WhileExit
    \/ GiveUp
    \/ CollectResults

SpecPoll == PollInit /\ [][PollNext]_vars

\* poll_results keeps taking its steps.
SpecPollLive == PollInit /\ [][PollNext]_vars /\ WF_vars(PollNext)

\* C35: poll_results polls until a poll sees "ended" or elapsed reaches
\* max_wait; when it returns, it returns the results collected from the batch
\* if a poll saw "ended" (which a poll only does before max_wait has elapsed),
\* and the empty list if none did.
C35_ResultsIffEnded ==
    /\ pl_hist.ended => pl_elapsed < pl_args.max_wait
    /\ pl_pc = "after" /\ ~pl_hist.ended => pl_elapsed >= pl_args.max_wait
    /\ pl_pc = "returned" =>
            /\ pl_out.kind = "list"
            /\ pl_out.results = IF pl_hist.ended THEN collect(pl_api.results) ELSE <<>>

\* poll_results returned the two results of a batch that a poll after the
\* first one saw ended.
C35_Witness ==
    /\ pl_pc = "returned"
    /\ pl_hist.ended
    /\ pl_hist.polls >= 2
    /\ Len(pl_out.results) = 2

\* C39: poll_results always ends: whatever poll_interval >= 0 and
\* max_wait >= 0 it is called with, and even if the batch never ends, it
\* returns (or raises) after finitely many status polls.
C39_PollTerminates == (pl_pc = "while") ~> (pl_pc \in {"returned", "raised"})

----------------------------------------------------------------------------
(* The error-class detector: nightwatch/patterns.py, detect_patterns and      *)
(* _detect_error_class_clusters                                               *)

\* The most analyses of a run, and the largest min_cluster_size.
MaxAnalyses == 3
MaxMinSize == 3

\* The errors analysed: New Relic's rows, one per facet (error.class,
\* transactionName) as the service answers them.
PdErrors ==
    [error_class : {"NoMethodError", "Timeout"},
     transaction : {"Controller/a/show", "Controller/b/index"}]

PdAnalyses == UNION {[1..n -> PdErrors] : n \in 0..MaxAnalyses}

\* Lines 213-218: class_to_txs[ec], the transactions of the analyses of class
\* ec, one entry per analysis.
transactions_of(results_, ec) ==
    LET of_class == SelectSeq(results_, LAMBDA r : r.error_class = ec)
    IN  [i \in 1..Len(of_class) |-> of_class[i].transaction]

\* The keys of class_to_txs in insertion order: the classes by first analysis.
RECURSIVE class_keys(_)
class_keys(results_) ==
    IF results_ = <<>> THEN <<>>
    ELSE LET rest == class_keys(SelectSeq(Tail(results_),
                                  LAMBDA r : r.error_class # Head(results_).error_class))
         IN  <<Head(results_).error_class>> \o rest

\* Line 222 counting the set of the transactions.
cluster_size_distinct(transactions) == Cardinality(Range(transactions))

\* Line 222: len(transactions).
cluster_size(transactions) == Len(transactions)

\* Lines 231-246: the DetectedPattern of a class.
recurring_error(error_class, transactions) ==
    [pattern_type |-> "recurring_error", error_classes |-> <<error_class>>,
     occurrences |-> Len(transactions),
     unique_txs |-> Cardinality(Range(transactions))]

\* patterns.py lines 207-249
_detect_error_class_clusters(results_, min_size) ==
    LET keys == class_keys(results_)
        kept == SelectSeq(keys, LAMBDA ec :
                    cluster_size(transactions_of(results_, ec)) >= min_size)
    IN  [i \in 1..Len(kept) |->
            recurring_error(kept[i], transactions_of(results_, kept[i]))]

\* detect_patterns(analyses, min_cluster_size), lines 47-58, as far as the
\* error-class detector goes.
DetectPatterns(results_, min_cluster_size) ==
    /\ pd_call' = [called |-> TRUE, analyses |-> results_,
                   min_cluster_size |-> min_cluster_size]
    /\ pd_patterns' = IF Len(results_) < min_cluster_size THEN <<>>
                      ELSE _detect_error_class_clusters(results_, min_cluster_size)
    /\ UNCHANGED nonPdVars

PatternsInit == BusVarsInit /\ RestInit

PatternsNext ==
    \E results_ \in PdAnalyses, min_cluster_size \in 1..MaxMinSize :
        DetectPatterns(results_, min_cluster_size)

SpecPatterns == PatternsInit /\ [][PatternsNext]_vars

\* The transactions a class occurs in among the analyses of the call.
C37_Transactions(ec) ==
    {pd_call.analyses[i].transaction :
        i \in {j \in DOMAIN pd_call.analyses : pd_call.analyses[j].error_class = ec}}

\* C37: the detector emits a recurring_error pattern for an error class if and
\* only if the class occurs in at least min_size distinct transactions among
\* the analyses.
C37_PatternIffDistinctTransactions ==
    pd_call.called =>
        \A ec \in {e.error_class : e \in PdErrors} :
            (\E i \in DOMAIN pd_patterns :
                /\ pd_patterns[i].pattern_type = "recurring_error"
                /\ pd_patterns[i].error_classes = <<ec>>)
            <=> Cardinality(C37_Transactions(ec)) >= pd_call.min_cluster_size

----------------------------------------------------------------------------
(* The conversation of a pass: nightwatch/analyzer.py, _single_pass and       *)
(* _compress_conversation                                                     *)

\* The largest NIGHTWATCH_MAX_ITERATIONS a caller sets here (the default of
\* config.py line 28 is 15).
MaxConvCeiling == 16

\* Error classes of the four iteration caps: 7, 5, 10 (default) and 15.
ConvErrorClasses == {"NoMethodError", "NotAuthorized", "RuntimeError", "Timeout"}

\* Line 265: the initial prompt; lines 311-315: the assistant's tool-use turn
\* and the tool results of iteration i.
InitialMessage == [role |-> "user", kind |-> "initial", n |-> 0]
AssistantMessage(i) == [role |-> "assistant", kind |-> "tool_use", n |-> i]
ToolResults(i) == [role |-> "user", kind |-> "tool_result", n |-> i]

\* Lines 637-653: the synthetic message that stands for the middle, with the
\* number of messages it summarizes.
Summary(middle) == [role |-> "user", kind |-> "summary", n |-> Len(middle)]

\* Lines 626-653 with the last five messages kept.
compress_keeping_five(msgs) ==
    IF Len(msgs) <= 6 THEN msgs
    ELSE <<msgs[1], Summary(SubSeq(msgs, 2, Len(msgs) - 5))>>
            \o SubSeq(msgs, Len(msgs) - 4, Len(msgs))

\* analyzer.py lines 626-653
_compress_conversation(msgs) ==
    IF Len(msgs) <= 6 THEN msgs
    ELSE <<msgs[1], Summary(SubSeq(msgs, 2, Len(msgs) - 4))>>
            \o SubSeq(msgs, Len(msgs) - 3, Len(msgs))

\* Line 318 with iteration > 7.
compression_due_late(iteration, msgs) == iteration > 7 /\ Len(msgs) > 8

\* Line 318: iteration > 6 and len(messages) > 8.
compression_due(iteration, msgs) == iteration > 6 /\ Len(msgs) > 8

\* Lines 265-278: _single_pass begins with the initial prompt.
SinglePass(error_class, ceiling) ==
    /\ cv_pc = "idle"
    /\ cv_messages' = <<InitialMessage>>
    /\ cv_iteration' = [iteration |-> 0,
                        max_iterations |-> _calculate_max_iterations(error_class, ceiling)]
    /\ cv_hist' = <<>>
    /\ cv_pc' = "while"
    /\ UNCHANGED nonCvVars

\* Line 280 false: the pass returns its incomplete analysis (lines 335-352).
ConvLoopExit ==
    /\ cv_pc = "while"
    /\ ~(cv_iteration.iteration < cv_iteration.max_iterations)
    /\ cv_pc' = "returned"
    /\ UNCHANGED <<cv_iteration, cv_messages, cv_hist, nonCvVars>>

\* Lines 280-296: the iteration begins and finds the token total over the
\* budget; break.
ConvBudgetBreak ==
    /\ cv_pc = "while"
    /\ cv_iteration.iteration < cv_iteration.max_iterations
    /\ cv_iteration.iteration > 0
    /\ cv_iteration' = [cv_iteration EXCEPT !.iteration = @ + 1]
    /\ cv_pc' = "returned"
    /\ UNCHANGED <<cv_messages, cv_hist, nonCvVars>>

\* Lines 280-303: the iteration begins and the LLM is called with messages.
ConvLlmCall ==
    /\ cv_pc = "while"
    /\ cv_iteration.iteration < cv_iteration.max_iterations
    /\ cv_iteration' = [cv_iteration EXCEPT !.iteration = @ + 1]
    /\ cv_pc' = "call"
    /\ UNCHANGED <<cv_messages, cv_hist, nonCvVars>>

\* Lines 307-319: a tool-use response; the assistant's turn and the tool
\* results are appended, and the conversation is compressed if it is long.
ConvToolUse ==
    /\ cv_pc = "call"
    /\ cv_hist' = cv_messages \o <<AssistantMessage(cv_iteration.iteration),
                                   ToolResults(cv_iteration.iteration)>>
    /\ cv_messages' = IF compression_due(cv_iteration.iteration, cv_hist')
                      THEN _compress_conversation(cv_hist')
                      ELSE cv_hist'
    /\ cv_pc' = "while"
    /\ UNCHANGED <<cv_iteration, nonCvVars>>

\* Lines 320-333: the final answer; the pass returns.
ConvEndTurn ==
    /\ cv_pc = "call"
    /\ cv_pc' = "returned"
    /\ UNCHANGED <<cv_iteration, cv_messages, cv_hist, nonCvVars>>

ConversationInit == BusVarsInit /\ RestInit

ConversationNext ==
    \/ \E error_class \in ConvErrorClasses, ceiling \in 0..MaxConvCeiling :
            SinglePass(error_class, ceiling)
    \/ ConvLoopExit
    \/ ConvBudgetBreak
    \/ ConvLlmCall
    \/ ConvToolUse
    \/ ConvEndTurn

SpecConversation == ConversationInit /\ [][ConversationNext]_vars

\* A tool-use step has just appended to the conversation.
AfterToolUse == cv_pc = "while" /\ cv_hist # <<>>

\* The first message, one summary of the middle, and the last four messages.
FirstSummaryLastFour(before, after) ==
    /\ Len(after) = 6
    /\ after[1] = before[1]
    /\ after[2].kind = "summary" /\ after[2].role = "user"
    /\ after[2].n = Len(before) - 5
    /\ \A k \in 1..4 : after[2 + k] = before[Len(before) - 4 + k]

Conversations ==
    {SubSeq(<<InitialMessage, AssistantMessage(1), ToolResults(1), AssistantMessage(2),
              ToolResults(2), AssistantMessage(3), ToolResults(3),
              AssistantMessage(4), ToolResults(4), AssistantMessage(5)>>, 1, n) :
        n \in 1..10}

C40_ConversationBounded ==
    /\ cv_iteration.max_iterations <= 15
    /\ cv_pc = "call" =>
            /\ Len(cv_messages) <= 13
            /\ cv_messages[1] = InitialMessage

\* The LLM is called with 13 messages in iteration 7, and with a compressed
\* conversation in iteration 15.
C40_Witness ==
    /\ cv_pc = "call"
    /\ \/ cv_iteration.iteration = 7 /\ Len(cv_messages) = 13
       \/ cv_iteration.iteration = 15 /\ cv_messages[2].kind = "summary"
    /\ cv_iteration.max_iterations = 15

====
